---- MODULE Spec2Model ----
(***************************************************************************)
(* Lesson-creation pipeline of the learning platform.                      *)
(*                                                                         *)
(* createLessonFromUrl (lessonService) is an async function: it runs       *)
(* synchronously between two awaits, and other invocations can run while   *)
(* it is suspended in an await.  Each invocation is modelled as a process  *)
(* whose position (pc) advances by one action per progress emission or     *)
(* awaited call.  The Prisma store is shared by all invocations.           *)
(*                                                                         *)
(* The transcript client, the generation client and the store are          *)
(* collaborators: an awaited call to one of them returns one of the values *)
(* its TypeScript result type allows, or throws.                           *)
(***************************************************************************)
EXTENDS Integers, Sequences, FiniteSets

VARIABLES store, nextId, inv, overlap, ex, gen, app

vars == <<store, nextId, inv, overlap, ex, gen, app>>

(* Invocation slots: at most two calls of createLessonFromUrl in flight.   *)
Invs == {"a", "b"}

(* An absent optional string (undefined in the source).                    *)
None == "<none>"

(* No video id: the null of extractVideoId and the '' of parseYouTubeUrl.  *)
NoId == <<>>

(* A call of an exported pure function: the function, its argument, and   *)
(* once it has been applied, its value.                                    *)
Application(fn, arg) == [fn |-> fn, arg |-> arg, applied |-> FALSE, value |-> arg]
IdleApp == Application(None, None)
Applied(fn) == app.fn = fn /\ app.applied

----------------------------------------------------------------------------
(* YouTube URL utilities (lib/utils/youtube.ts)                            *)

(* Length of a video id: the {11} of every pattern.                        *)
IdLen == 11

(* The character class [a-zA-Z0-9_-] of the patterns.                      *)
IdChars ==
  { "a","b","c","d","e","f","g","h","i","j","k","l","m",
    "n","o","p","q","r","s","t","u","v","w","x","y","z",
    "A","B","C","D","E","F","G","H","I","J","K","L","M",
    "N","O","P","Q","R","S","T","U","V","W","X","Y","Z",
    "0","1","2","3","4","5","6","7","8","9","_","-" }

(* A URL string is  [pad] scheme host path tail [pad] : host is its        *)
(* sequence of dot-separated labels, path the text between the host and    *)
(* the id, tail the characters that follow.  pad is surrounding            *)
(* whitespace, which url.trim() removes.                                   *)
Url(pad, host, path, tail) ==
  [pad |-> pad, host |-> host, path |-> path, tail |-> tail]

trim(u) == [u EXCEPT !.pad = FALSE]

IsSuffix(s, t) ==
  /\ Len(s) <= Len(t)
  /\ \A k \in 1..Len(s) : s[k] = t[Len(t) - Len(s) + k]

(* The five regular expressions, in the order of the patterns array.  A    *)
(* pattern is not anchored, so its host has only to end the URL's host;    *)
(* the optional (?:www\.)? adds nothing to that.                           *)
patterns ==
  << [host |-> <<"youtube", "com">>,      path |-> "/watch?v="],
     [host |-> <<"youtu", "be">>,         path |-> "/"],
     [host |-> <<"m", "youtube", "com">>, path |-> "/watch?v="],
     [host |-> <<"youtube", "com">>,      path |-> "/watch?v="],
     [host |-> <<"youtube", "com">>,      path |-> "/embed/"] >>

(* cleanUrl.match(pattern): the capture group takes exactly IdLen id       *)
(* characters right after the path.                                        *)
match(cleanUrl, pattern) ==
  IF /\ IsSuffix(pattern.host, cleanUrl.host)
     /\ cleanUrl.path = pattern.path
     /\ Len(cleanUrl.tail) >= IdLen
     /\ \A k \in 1..IdLen : cleanUrl.tail[k] \in IdChars
  THEN SubSeq(cleanUrl.tail, 1, IdLen)
  ELSE NoId

extractVideoId(url) ==
  LET cleanUrl == trim(url)
      hits == { k \in 1..Len(patterns) : match(cleanUrl, patterns[k]) # NoId }
  IN  IF hits = {} THEN NoId
      ELSE match(cleanUrl, patterns[CHOOSE k \in hits : \A j \in hits : k <= j])

(* parseYouTubeUrl that reports every input as valid.                      *)
parseYouTubeUrl_AlwaysValid(url) ==
  [ videoId |-> extractVideoId(url), url |-> url, isValid |-> TRUE ]

parseYouTubeUrl(url) ==
  LET videoId == extractVideoId(url)
  IN  [ videoId |-> videoId,
        url     |-> url,
        isValid |-> videoId # NoId ]

(* Thrown errors are values [throw |-> message].                           *)
Throw(message) == [throw |-> message]

generateYouTubeUrl(videoId) ==
  IF videoId = NoId \/ Len(videoId) # IdLen
  THEN Throw("Invalid YouTube video ID")
  ELSE Url(FALSE, <<"www", "youtube", "com">>, "/watch?v=", videoId)

(* A normalizer that leaves the host and the path as they were given.      *)
normalizeYouTubeUrl_KeepsForm(url) ==
  LET videoId == extractVideoId(url)
  IN  IF videoId = NoId THEN Throw("Invalid YouTube URL")
      ELSE Url(FALSE, url.host, url.path, videoId)

normalizeYouTubeUrl(url) ==
  LET videoId == extractVideoId(url)
  IN  IF videoId = NoId THEN Throw("Invalid YouTube URL")
      ELSE generateYouTubeUrl(videoId)

IsThrow(v) == "throw" \in DOMAIN v

----------------------------------------------------------------------------
(* Inputs                                                                  *)

Vid1 == <<"d","Q","w","4","w","9","W","g","X","c","Q">>
Vid2 == <<"a","b","c","d","e","f","g","h","i","j","k">>

(* The URLs a caller submits: every accepted form of one video, a second   *)
(* video, a URL with a query string after the id, and rejected inputs (a   *)
(* foreign host, an id that is too short, an id with a foreign character). *)
UrlInputs ==
  { Url(FALSE, <<"www", "youtube", "com">>, "/watch?v=", Vid1),
    Url(TRUE,  <<"youtu", "be">>,           "/",         Vid1),
    Url(FALSE, <<"m", "youtube", "com">>,   "/watch?v=", Vid1),
    Url(FALSE, <<"youtube", "com">>,        "/watch?v=", Vid1),
    Url(FALSE, <<"www", "youtube", "com">>, "/embed/",   Vid1),
    Url(FALSE, <<"youtu", "be">>,           "/",         Vid1 \o <<"?","t","=","1">>),
    Url(FALSE, <<"youtu", "be">>,           "/",         Vid2),
    Url(FALSE, <<"vimeo", "com">>,          "/",         Vid1),
    Url(FALSE, <<"www", "youtube", "com">>, "/watch?v=", SubSeq(Vid1, 1, 10)),
    Url(FALSE, <<"youtu", "be">>,           "/",         <<"d","Q","!">> \o SubSeq(Vid1, 4, 11)) }

----------------------------------------------------------------------------
(* Collaborators of the orchestrator                                       *)

(* A transcript text, by its length in characters and in words; the        *)
(* absent or empty text has no characters.                                 *)
Text(chars, words) ==
  [chars |-> chars, words |-> words, lead |-> FALSE, trail |-> FALSE]

(* The same text with whitespace before it, after it, or both.             *)
Padded(text, lead, trail) == [text EXCEPT !.lead = lead, !.trail = trail]
NoText == Text(0, 0)

(* A value that is not a string where a transcript is expected (the        *)
(* capability's content is untyped).                                       *)
NotAString == Text(-1, -1)

(* TranscriptResponse values extractTranscriptWithRetry resolves to: a     *)
(* transcript, a failure with or without a message, a success that        *)
(* carries no text, a transcript of a few words, and a success whose       *)
(* transcript is not a string.                                             *)
TranscriptResponse(success, transcript, error) ==
  [success |-> success, transcript |-> transcript, error |-> error]

TranscriptResponses ==
  { TranscriptResponse(TRUE,  Text(1500, 250), None),
    TranscriptResponse(FALSE, NoText, "Transcript extraction timed out"),
    TranscriptResponse(FALSE, NoText, None),
    TranscriptResponse(TRUE,  NoText, None),
    TranscriptResponse(TRUE,  Text(50, 10), None),
    TranscriptResponse(TRUE,  NotAString, None) }

(* GeneratedLesson values, and the absent lesson.                          *)
GeneratedLesson(title, sections) ==
  [title |-> title, sections |-> sections, totalSections |-> Len(sections)]
NoGenerated == [title |-> None, sections |-> <<>>, totalSections |-> 0]

GeneratedLessons ==
  { GeneratedLesson("Lesson A", <<"section 1", "section 2">>),
    GeneratedLesson("Lesson B", <<"section 1", "section 2", "section 3">>) }

(* AIGenerationResponse values generateContentWithRetry resolves to.       *)
AIGenerationResponse(success, lesson, error) ==
  [success |-> success, lesson |-> lesson, error |-> error]

AIGenerationResponses ==
  { AIGenerationResponse(TRUE, l, None) : l \in GeneratedLessons }
  \cup { AIGenerationResponse(FALSE, NoGenerated, "Failed to generate content with AI"),
         AIGenerationResponse(FALSE, NoGenerated, None),
         AIGenerationResponse(TRUE,  NoGenerated, None) }

(* Errors a rejected promise of a collaborator carries.  They are library  *)
(* errors (instances of Error), which have a message.                      *)
StoreErrors      == { Throw("Can't reach database server") }
TranscriptErrors == { Throw("fetch failed") }
GenerationErrors == { Throw("transcript.substring is not a function") }

(* A stored Lesson row with its nested Section rows; the absent lesson.    *)
NoLesson == [id |-> 0, title |-> None, videoUrl |-> None, videoId |-> NoId,
             sections |-> <<>>]

----------------------------------------------------------------------------
(* Transcript Extraction Client (lib/services/transcriptService.ts)        *)
(*                                                                         *)
(* The file holds two variants of the client: "sdk" calls the Supadata SDK *)
(* (lines 1-282), "mcp" the Supadata MCP functions (lines 284-540).  They  *)
(* share extractTranscriptWithRetry and pollTranscriptJob and differ in    *)
(* extractTranscript and checkTranscriptStatus.                            *)

Variants == {"sdk", "mcp"}

(* setTimeout(resolve, 2000) between two attempts                          *)
RetryDelayMs == 2000
(* pollInterval: the default, and the value createLessonFromUrl passes     *)
PollIntervalMs == 5000
(* maxPollTime: the default of pollTranscriptJob, which its caller keeps   *)
MaxPollTimeMs == 300000

(* The largest maxRetries a caller passes.                                 *)
MaxAttempts == 3

(* The time a status request takes: none, or a minute.                     *)
Latencies == {0, 60000}

(* TranscriptResponse with all its fields.                                 *)
TranscriptResult(success, transcript, error, jobId, status) ==
  [success |-> success, transcript |-> transcript, error |-> error,
   jobId |-> jobId, status |-> status]

(* What the external capability answers to a transcript request: a text    *)
(* (possibly empty), a job handle, something else, or an exception.        *)
Answer(kind, content, message) ==
  [kind |-> kind, content |-> content, message |-> message]

TranscriptAnswers ==
  { Answer("text",  Text(1500, 250), None),
    Answer("text",  NoText, None),
    Answer("job",   NoText, None),
    Answer("other", NoText, None),
    Answer("throw", NoText, "fetch failed") }

(* What it answers to a status request: the job's status with its content  *)
(* and error, or an exception (status "throw").                            *)
JobStatus(status, content, error) ==
  [status |-> status, content |-> content, error |-> error]

JobStatusAnswers ==
  { JobStatus("queued",    NoText, None),
    JobStatus("active",    NoText, None),
    JobStatus("completed", Text(1500, 250), None),
    JobStatus("completed", NoText, None),
    JobStatus("failed",    NoText, "Video is private"),
    JobStatus("failed",    NoText, None),
    JobStatus("throw",     NoText, "fetch failed") }

(* The catch block of extractTranscript: the sdk variant returns a         *)
(* failure that carries the message, the mcp variant rethrows.             *)
extractTranscriptCatch(variant, message) ==
  IF variant = "sdk"
  THEN TranscriptResult(FALSE, NoText, message, None, None)
  ELSE Throw(message)

(* extractTranscript from the answer to its transcript request on.  The    *)
(* value is what it returns or throws, or Pending when the sdk variant     *)
(* goes on to ask for the status of the job it was given.                  *)
Pending == [pending |-> TRUE]

extractTranscript(variant, answer) ==
  IF answer.kind = "throw" THEN extractTranscriptCatch(variant, answer.message)
  ELSE IF variant = "sdk"
  THEN IF answer.kind = "job" THEN Pending
       ELSE IF answer.kind = "text" /\ answer.content # NoText
       THEN TranscriptResult(TRUE, answer.content, None, None, None)
       ELSE extractTranscriptCatch(variant, "No transcript content found in response")
  ELSE IF answer.kind = "text"
       THEN TranscriptResult(TRUE, answer.content, None, None, None)
       ELSE IF answer.kind = "job"
       THEN TranscriptResult(TRUE, NoText, None, "job-1", "processing")
       ELSE TranscriptResult(FALSE, NoText,
              "Unexpected response format from transcript service", None, None)

(* The sdk extractTranscript from the answer to its getJobStatus on.       *)
extractTranscriptJob(variant, jobStatus) ==
  IF jobStatus.status = "throw"
  THEN extractTranscriptCatch(variant, jobStatus.error)
  ELSE IF jobStatus.status = "completed"
  THEN IF jobStatus.content # NoText
       THEN TranscriptResult(TRUE, jobStatus.content, None, None, None)
       ELSE extractTranscriptCatch(variant, "No transcript content found in response")
  ELSE IF jobStatus.status = "failed"
  THEN extractTranscriptCatch(variant,
         IF jobStatus.error # None THEN jobStatus.error ELSE "Transcript job failed")
  ELSE TranscriptResult(TRUE, NoText, None, "job-1", "processing")

(* A status check whose catch block reports the job as failed.             *)
checkTranscriptStatus_ThrowIsFailed(jobStatus) ==
  IF jobStatus.status = "throw"
  THEN TranscriptResult(FALSE, NoText, "Failed to check transcript status", None, "failed")
  ELSE IF jobStatus.status = "completed" /\ jobStatus.content # NoText
  THEN TranscriptResult(TRUE, jobStatus.content, None, None, "completed")
  ELSE IF jobStatus.status = "failed"
  THEN TranscriptResult(FALSE, NoText,
         IF jobStatus.error # None THEN jobStatus.error
         ELSE "Transcript extraction failed", None, "failed")
  ELSE TranscriptResult(TRUE, NoText, None, "job-1", jobStatus.status)

(* checkTranscriptStatus (the same in both variants)                       *)
checkTranscriptStatus(jobStatus) ==
  IF jobStatus.status = "throw"
  THEN TranscriptResult(FALSE, NoText, "Failed to check transcript status", None, None)
  ELSE IF jobStatus.status = "completed" /\ jobStatus.content # NoText
  THEN TranscriptResult(TRUE, jobStatus.content, None, None, "completed")
  ELSE IF jobStatus.status = "failed"
  THEN TranscriptResult(FALSE, NoText,
         IF jobStatus.error # None THEN jobStatus.error
         ELSE "Transcript extraction failed", None, "failed")
  ELSE TranscriptResult(TRUE, NoText, None, "job-1", jobStatus.status)

(* The state of a call of extractTranscriptWithRetry.  attempt, jobId and  *)
(* result are the source's; elapsed is Date.now() - startTime.  The other  *)
(* fields record what the call has done:                                   *)
(*   log          its calls of extractTranscript, each with how it ended,  *)
(*                and its retry delays, in order                           *)
(*   requests     the transcript requests it has sent to the capability    *)
(*   afterJob     those sent after the capability had returned a job id    *)
(*   jobGiven     the capability has returned a job id                     *)
(*   primary      how the transcript request of the last extractTranscript *)
(*                ended, and extra, the requests that call sent after it    *)
(*   delayed      the time spent in retry delays                           *)
(*   checks, sleeps, slept   the status checks and the sleeps of           *)
(*                pollTranscriptJob, and the time slept                    *)
(*   lastStatus   the result of the last status check                      *)
(*   waiting      every status check so far found the job queued or active *)
(*   stray        which of the status checks so far threw ("threw") or     *)
(*                reported completed without content ("empty")             *)
NoResponse == TranscriptResult(FALSE, NoText, None, None, None)

IdleEx ==
  [ pc |-> "idle", variant |-> "sdk", maxRetries |-> 0, attempt |-> 0,
    jobId |-> None, elapsed |-> 0, result |-> NoResponse,
    log |-> <<>>, requests |-> 0, afterJob |-> 0, jobGiven |-> FALSE,
    primary |-> None, extra |-> 0,
    checks |-> 0, sleeps |-> 0, slept |-> 0, delayed |-> 0,
    lastStatus |-> NoResponse, waiting |-> TRUE, stray |-> {} ]


(* extractTranscriptWithRetry returns response to its caller.              *)
ExReturn(e, response) == [e EXCEPT !.pc = "done", !.result = response]

(* A loop body that returns a failure at once, without another attempt.    *)
onResponse_NoRetry(e, response) ==
  IF response.success /\ response.transcript # NoText
  THEN ExReturn(e, response)
  ELSE IF response.success /\ response.jobId # None
  THEN [e EXCEPT !.pc = "poll", !.jobId = response.jobId, !.elapsed = 0]
  ELSE ExReturn([e EXCEPT !.attempt = @ + 1], response)

(* The body of the retry loop after extractTranscript has returned         *)
(* response: return a transcript, poll a job, or count a failure and       *)
(* either delay and go round again or return the failure.                  *)
onResponse(e, response) ==
  IF response.success /\ response.transcript # NoText
  THEN ExReturn(e, response)
  ELSE IF response.success /\ response.jobId # None
  THEN [e EXCEPT !.pc = "poll", !.jobId = response.jobId, !.elapsed = 0]
  ELSE IF ~response.success
  THEN IF e.attempt + 1 < e.maxRetries
       THEN [e EXCEPT !.attempt = @ + 1, !.pc = "delay"]
       ELSE ExReturn([e EXCEPT !.attempt = @ + 1], response)
  ELSE ExReturn(e, response)

(* The catch block of the retry loop, reached when extractTranscript       *)
(* throws: give up after maxRetries attempts, delay and go round otherwise. *)
onThrow(e) ==
  IF e.attempt + 1 >= e.maxRetries
  THEN ExReturn([e EXCEPT !.attempt = @ + 1],
         TranscriptResult(FALSE, NoText,
           "Failed to extract transcript after maxRetries attempts", None, None))
  ELSE [e EXCEPT !.attempt = @ + 1, !.pc = "delay"]

(* How a call of extractTranscript ended, for the log.                     *)
Ended(outcome) ==
  IF IsThrow(outcome) THEN "throw"
  ELSE IF outcome.success /\ outcome.transcript # NoText THEN "text"
  ELSE IF outcome.success /\ outcome.jobId # None THEN "job"
  ELSE IF outcome.success THEN "empty"
  ELSE "failure"

(* extractTranscript has ended with outcome: the retry loop goes on.       *)
Handle(e, outcome) ==
  LET logged == [e EXCEPT !.log = Append(@, Ended(outcome))]
  IN  IF IsThrow(outcome) THEN onThrow(logged) ELSE onResponse(logged, outcome)

(* A caller calls extractTranscriptWithRetry(videoUrl, maxRetries).        *)
ExInvoke(variant, maxRetries) ==
  /\ ex.pc = "idle"
  /\ ex' = [IdleEx EXCEPT !.pc = "attempt", !.variant = variant,
                          !.maxRetries = maxRetries]
  /\ UNCHANGED <<store, nextId, inv, overlap, gen, app>>

(* The loop test fails: "Max retries exceeded".                            *)
ExExhausted ==
  /\ ex.pc = "attempt"
  /\ ~(ex.attempt < ex.maxRetries)
  /\ ex' = ExReturn(ex, TranscriptResult(FALSE, NoText, "Max retries exceeded",
                                         None, None))
  /\ UNCHANGED <<store, nextId, inv, overlap, gen, app>>

(* One round of the loop: extractTranscript sends its transcript request   *)
(* and the capability answers.                                             *)
ExRequest ==
  /\ ex.pc = "attempt"
  /\ ex.attempt < ex.maxRetries
  /\ \E answer \in TranscriptAnswers :
       LET sent == [ex EXCEPT !.requests = @ + 1,
                              !.afterJob = IF ex.jobGiven THEN @ + 1 ELSE @,
                              !.jobGiven = @ \/ answer.kind = "job",
                              !.primary = answer.kind,
                              !.extra = 0]
           outcome == extractTranscript(ex.variant, answer)
       IN  ex' = IF outcome = Pending
                 THEN [sent EXCEPT !.pc = "jobStatus"]
                 ELSE Handle(sent, outcome)
  /\ UNCHANGED <<store, nextId, inv, overlap, gen, app>>

(* The sdk extractTranscript asks at once for the status of its job.       *)
ExJobStatus ==
  /\ ex.pc = "jobStatus"
  /\ \E jobStatus \in JobStatusAnswers :
       ex' = Handle([ex EXCEPT !.extra = @ + 1],
                    extractTranscriptJob(ex.variant, jobStatus))
  /\ UNCHANGED <<store, nextId, inv, overlap, gen, app>>

(* The delay before the next attempt.                                      *)
ExDelay ==
  /\ ex.pc = "delay"
  /\ ex' = [ex EXCEPT !.pc = "attempt", !.log = Append(@, "delay"),
                      !.delayed = @ + RetryDelayMs]
  /\ UNCHANGED <<store, nextId, inv, overlap, gen, app>>

(* A polling round that returns on a completed job only.                   *)
ExPollCheck_IgnoresFailed ==
  /\ ex.pc = "poll"
  /\ ex.elapsed < MaxPollTimeMs
  /\ \E jobStatus \in JobStatusAnswers, latency \in Latencies :
       LET status == checkTranscriptStatus(jobStatus)
           checked == [ex EXCEPT !.checks = @ + 1,
                                 !.elapsed = @ + latency,
                                 !.lastStatus = status,
                                 !.waiting = @ /\ jobStatus.status \in {"queued", "active"},
                                 !.stray = @ \cup
                                   (IF jobStatus.status = "throw" THEN {"threw"}
                                    ELSE IF jobStatus.status = "completed"
                                            /\ jobStatus.content = NoText
                                    THEN {"empty"} ELSE {})]
       IN  ex' = IF status.status = "completed" /\ status.transcript # NoText
                 THEN ExReturn(checked, status)
                 ELSE [checked EXCEPT !.pc = "pollSleep"]
  /\ UNCHANGED <<store, nextId, inv, overlap, gen, app>>

(* pollTranscriptJob: the loop test holds, checkTranscriptStatus is called *)
(* and its result ends the polling or leads to a sleep.                    *)
ExPollCheck ==
  /\ ex.pc = "poll"
  /\ ex.elapsed < MaxPollTimeMs
  /\ \E jobStatus \in JobStatusAnswers, latency \in Latencies :
       LET status == checkTranscriptStatus(jobStatus)
           checked == [ex EXCEPT !.checks = @ + 1,
                                 !.elapsed = @ + latency,
                                 !.lastStatus = status,
                                 !.waiting = @ /\ jobStatus.status \in {"queued", "active"},
                                 !.stray = @ \cup
                                   (IF jobStatus.status = "throw" THEN {"threw"}
                                    ELSE IF jobStatus.status = "completed"
                                            /\ jobStatus.content = NoText
                                    THEN {"empty"} ELSE {})]
       IN  ex' = IF status.status = "completed" /\ status.transcript # NoText
                 THEN ExReturn(checked, status)
                 ELSE IF status.status = "failed"
                 THEN ExReturn(checked, status)
                 ELSE [checked EXCEPT !.pc = "pollSleep"]
  /\ UNCHANGED <<store, nextId, inv, overlap, gen, app>>

(* pollTranscriptJob sleeps for pollInterval.                              *)
ExPollSleep ==
  /\ ex.pc = "pollSleep"
  /\ ex' = [ex EXCEPT !.pc = "poll", !.sleeps = @ + 1,
                      !.slept = @ + PollIntervalMs,
                      !.elapsed = @ + PollIntervalMs]
  /\ UNCHANGED <<store, nextId, inv, overlap, gen, app>>

(* A polling that starts over when its budget is used up.                  *)
ExPollTimeout_StartsOver ==
  /\ ex.pc = "poll"
  /\ ~(ex.elapsed < MaxPollTimeMs)
  /\ ex' = [ex EXCEPT !.elapsed = 0, !.checks = 0, !.sleeps = 0, !.slept = 0]
  /\ UNCHANGED <<store, nextId, inv, overlap, gen, app>>

(* pollTranscriptJob: the loop test fails, the polling has timed out.      *)
ExPollTimeout ==
  /\ ex.pc = "poll"
  /\ ~(ex.elapsed < MaxPollTimeMs)
  /\ ex' = ExReturn(ex, TranscriptResult(FALSE, NoText,
                          "Transcript extraction timed out", None, None))
  /\ UNCHANGED <<store, nextId, inv, overlap, gen, app>>

(* The caller has the result; the client is free for the next call.        *)
ExDone ==
  /\ ex.pc = "done"
  /\ ex' = IdleEx
  /\ UNCHANGED <<store, nextId, inv, overlap, gen, app>>

(* The steps of a running call.                                            *)
ExStep ==
  \/ ExExhausted
  \/ ExRequest
  \/ ExJobStatus
  \/ ExDelay
  \/ ExPollCheck
  \/ ExPollSleep
  \/ ExPollTimeout

NextExtract ==
  \/ \E variant \in Variants, maxRetries \in 0..MaxAttempts :
       ExInvoke(variant, maxRetries)
  \/ ExStep
  \/ ExDone

----------------------------------------------------------------------------
(* Content Generation Client (lib/services/aiService.ts)                   *)

(* setTimeout(resolve, 1000) between two attempts                          *)
RetryPauseMs == 1000

(* QuizQuestion: the question and the explanation are a text or None, the  *)
(* options are given by their number, and correctAnswer is a number or     *)
(* something else.  A number is a whole one, Num(n), or lies half-way      *)
(* between n and n + 1, Frac(n): JSON allows both.                         *)
Num(value) == [number |-> TRUE, value |-> value, frac |-> FALSE]
Frac(value) == [number |-> TRUE, value |-> value, frac |-> TRUE]
NotANumber == [number |-> FALSE, value |-> 0, frac |-> FALSE]

QuizQuestion(question, options, correctAnswer, explanation) ==
  [question |-> question, options |-> options,
   correctAnswer |-> correctAnswer, explanation |-> explanation]

(* GeneratedSection: title and summary are a text or None, the content is  *)
(* given by its length, the learning objectives by their number (-1 when   *)
(* the field is missing), the quiz by its questions.                       *)
GeneratedSection(title, summary, learningObjectives, content, questions) ==
  [title |-> title, summary |-> summary,
   learningObjectives |-> learningObjectives, content |-> content,
   questions |-> questions]

(* The question and the section of generateMockContent.                    *)
MockQuestion(correctAnswer) ==
  QuizQuestion("question", 4, Num(correctAnswer), "explanation")

MockSection(index) ==
  GeneratedSection("Section: Core Concepts", "summary", 3, 1200,
    << MockQuestion(0), MockQuestion(1), MockQuestion(2), MockQuestion(1),
       MockQuestion(2) >>)

(* transcript.split(/\s+/).length: the pieces between runs of whitespace.  *)
(* Whitespace at the start or at the end of the string leaves an empty     *)
(* piece there, and the empty string is one empty piece.                   *)
splitLength(transcript) ==
  IF transcript.words = 0
  THEN IF transcript.lead \/ transcript.trail THEN 2 ELSE 1
  ELSE transcript.words + (IF transcript.lead THEN 1 ELSE 0)
                        + (IF transcript.trail THEN 1 ELSE 0)

(* determineSectionCount                                                   *)
determineSectionCount(transcript) ==
  LET wordCount == splitLength(transcript)
  IN  IF wordCount < 500 THEN 2
      ELSE IF wordCount < 1500 THEN 3
      ELSE IF wordCount < 3000 THEN 4
      ELSE 5

(* A mock lesson that keeps the title it was given, also when there is     *)
(* none.                                                                   *)
generateMockContent_NoDefaultTitle(transcript, videoTitle) ==
  IF transcript = NotAString
  THEN Throw("transcript.split is not a function")
  ELSE AIGenerationResponse(TRUE,
         GeneratedLesson(videoTitle,
           [k \in 1..determineSectionCount(transcript) |-> MockSection(k)]),
         None)

(* generateMockContent, which throws when the transcript has no split.     *)
generateMockContent(transcript, videoTitle) ==
  IF transcript = NotAString
  THEN Throw("transcript.split is not a function")
  ELSE AIGenerationResponse(TRUE,
         GeneratedLesson(
           IF videoTitle # None THEN videoTitle
           ELSE "Introduction to Programming Concepts",
           [k \in 1..determineSectionCount(transcript) |-> MockSection(k)]),
         None)

(* What the generation capability answers: a text that is no JSON, a JSON  *)
(* document, or an exception.                                              *)
Generated(kind, lesson) == [kind |-> kind, lesson |-> lesson]

GoodQuestion == QuizQuestion("question", 4, Num(2), "explanation")
GoodQuestions == [k \in 1..5 |-> GoodQuestion]
GoodSection == GeneratedSection("title", "summary", 3, 800, GoodQuestions)

GeminiAnswers ==
  { Generated("throw", NoGenerated),
    Generated("text",  NoGenerated),
    (* a lesson as the prompt asks for it *)
    Generated("json",  GeneratedLesson("Lesson", <<GoodSection, GoodSection, GoodSection>>)),
    (* no title *)
    Generated("json",  GeneratedLesson(None, <<GoodSection>>)),
    (* no sections *)
    Generated("json",  GeneratedLesson("Lesson", <<>>)),
    (* a section with four questions *)
    Generated("json",  GeneratedLesson("Lesson",
        <<GoodSection, [GoodSection EXCEPT !.questions = SubSeq(GoodQuestions, 1, 4)]>>)),
    (* a question with three options *)
    Generated("json",  GeneratedLesson("Lesson",
        <<[GoodSection EXCEPT !.questions[2].options = 3]>>)),
    (* a correct answer outside the options *)
    Generated("json",  GeneratedLesson("Lesson",
        <<[GoodSection EXCEPT !.questions[5].correctAnswer = Num(7)]>>)),
    (* a correct answer of 3.5 *)
    Generated("json",  GeneratedLesson("Lesson",
        <<[GoodSection EXCEPT !.questions[5].correctAnswer = Frac(3)]>>)),
    (* a content of 150 characters *)
    Generated("json",  GeneratedLesson("Lesson",
        <<[GoodSection EXCEPT !.content = 150]>>)),
    (* no learning objectives *)
    Generated("json",  GeneratedLesson("Lesson",
        <<[GoodSection EXCEPT !.learningObjectives = 0]>>)) }

(* The checks parseAIResponse makes on a question and on a section.  A     *)
(* number between n and n + 1 is >= 0 when n is, and < 4 when n is.        *)
ParsesQuestion(q) ==
  /\ q.question # None
  /\ q.options = 4
  /\ q.correctAnswer.number
  /\ q.correctAnswer.value >= 0
  /\ q.correctAnswer.value < 4
  /\ q.explanation # None

ParsesSection(section) ==
  /\ section.title # None
  /\ section.summary # None
  /\ section.content # 0
  /\ section.learningObjectives >= 0
  /\ \A k \in 1..Len(section.questions) : ParsesQuestion(section.questions[k])

(* parseAIResponse: the lesson, or null (NoGenerated)                      *)
parseAIResponse(answer) ==
  IF /\ answer.kind = "json"
     /\ answer.lesson.title # None
     /\ \A k \in 1..Len(answer.lesson.sections) :
          ParsesSection(answer.lesson.sections[k])
  THEN answer.lesson
  ELSE NoGenerated

(* A validation that accepts a quiz of any length.                         *)
validateGeneratedContent_AnyQuizLength(lesson) ==
  /\ lesson.title # None
  /\ Len(lesson.sections) # 0
  /\ \A k \in 1..Len(lesson.sections) :
       LET section == lesson.sections[k]
       IN  /\ section.title # None
           /\ section.summary # None
           /\ section.content # 0
           /\ section.learningObjectives > 0
           /\ section.content >= 200
           /\ \A n \in 1..Len(section.questions) :
                LET q == section.questions[n]
                IN  /\ q.question # None
                    /\ q.options = 4
                    /\ q.correctAnswer.number
                    /\ q.explanation # None

(* validateGeneratedContent                                                *)
validateGeneratedContent(lesson) ==
  /\ lesson.title # None
  /\ Len(lesson.sections) # 0
  /\ \A k \in 1..Len(lesson.sections) :
       LET section == lesson.sections[k]
       IN  /\ section.title # None
           /\ section.summary # None
           /\ section.content # 0
           /\ section.learningObjectives > 0
           /\ section.content >= 200
           /\ Len(section.questions) = 5
           /\ \A n \in 1..Len(section.questions) :
                LET q == section.questions[n]
                IN  /\ q.question # None
                    /\ q.options = 4
                    /\ q.correctAnswer.number
                    /\ q.explanation # None

(* generateWithGemini.  Its catch block reads prompt.length, and prompt is *)
(* declared inside the try block: the name resolves to a global, which a   *)
(* runtime may have (then the function returns null) or not (then the      *)
(* catch block throws a ReferenceError).                                   *)
generateWithGemini(answer, hasGlobalPrompt) ==
  IF parseAIResponse(answer) # NoGenerated
  THEN parseAIResponse(answer)
  ELSE IF hasGlobalPrompt THEN NoGenerated
  ELSE Throw("prompt is not defined")

(* generateLessonContent.  A value without trim throws in the try block    *)
(* and again in the catch block, which reads transcript.substring.         *)
generateLessonContent(transcript, videoTitle, answer, hasGlobalPrompt) ==
  IF transcript = NotAString
  THEN Throw("transcript.substring is not a function")
  ELSE IF transcript.chars < 100
  THEN AIGenerationResponse(FALSE, NoGenerated,
         "Transcript is too short or empty for content generation")
  ELSE LET generatedContent == generateWithGemini(answer, hasGlobalPrompt)
       IN  IF IsThrow(generatedContent)
           THEN generateMockContent(transcript, videoTitle)
           ELSE IF generatedContent = NoGenerated
           THEN AIGenerationResponse(FALSE, NoGenerated,
                  "Failed to generate content with AI")
           ELSE AIGenerationResponse(TRUE, generatedContent, None)

(* The state of a call of generateContentWithRetry.  attempt and lastError *)
(* are the source's.  The other fields record what the call has done:      *)
(*   log     what each call of generateLessonContent gave ("valid": a      *)
(*           lesson that passes the validation, "invalid": one that fails  *)
(*           it, "failure": success = false) and the pauses, in order      *)
(*   mocks   the attempts at which generateLessonContent itself returned   *)
(*           the mock lesson                                               *)
(*   origin  where the returned result was made: "attempt" or "exhausted"  *)
(*   paused  the time spent in pauses                                      *)
(*   caller  the invocation of createLessonFromUrl that made the call, or  *)
(*           None for a call by a route handler                            *)
IdleGen ==
  [ pc |-> "idle", transcript |-> NoText, videoTitle |-> None,
    maxRetries |-> 0, hasGlobalPrompt |-> FALSE, attempt |-> 0,
    lastError |-> None, result |-> AIGenerationResponse(FALSE, NoGenerated, None),
    thrown |-> Throw(None), caller |-> None,
    log |-> <<>>, mocks |-> {}, origin |-> None, paused |-> 0 ]

Transcripts == { Text(1500, 250), Text(12000, 2000), Text(50, 10), NoText, NotAString }
VideoTitles == { None, "My video" }

(* A caller calls generateContentWithRetry(transcript, videoTitle,         *)
(* maxRetries) on a runtime with or without a global named prompt.         *)
GenInvoke(transcript, videoTitle, maxRetries, hasGlobalPrompt) ==
  /\ gen.pc = "idle"
  /\ gen' = [IdleGen EXCEPT !.pc = "loop", !.transcript = transcript,
                            !.videoTitle = videoTitle,
                            !.maxRetries = maxRetries,
                            !.hasGlobalPrompt = hasGlobalPrompt,
                            !.attempt = 1]
  /\ UNCHANGED <<store, nextId, inv, overlap, ex, app>>

(* One round of the loop: generateLessonContent, the validation of its     *)
(* result, and the return or the way to the next round.                    *)
GenAttempt ==
  /\ gen.pc = "loop"
  /\ gen.attempt <= gen.maxRetries
  /\ \E answer \in GeminiAnswers :
       LET result == generateLessonContent(gen.transcript, gen.videoTitle,
                                           answer, gen.hasGlobalPrompt)
           isMock == /\ ~IsThrow(result)
                     /\ result = generateMockContent(gen.transcript, gen.videoTitle)
           valid == /\ result.success
                    /\ result.lesson # NoGenerated
                    /\ validateGeneratedContent(result.lesson)
           g == [gen EXCEPT !.mocks = IF isMock THEN @ \cup {gen.attempt} ELSE @]
       IN  gen' =
             IF IsThrow(result)
             THEN [g EXCEPT !.pc = "threw", !.thrown = result,
                            !.log = Append(@, "throw")]
             ELSE IF valid
             THEN [g EXCEPT !.pc = "done", !.result = result,
                            !.origin = "attempt", !.log = Append(@, "valid")]
             ELSE LET failed == [g EXCEPT
                        !.lastError = IF result.error # None THEN result.error
                                      ELSE "Generated content failed validation",
                        !.log = Append(@, IF result.success THEN "invalid"
                                          ELSE "failure")]
                  IN  IF gen.attempt < gen.maxRetries
                      THEN [failed EXCEPT !.pc = "pause"]
                      ELSE [failed EXCEPT !.attempt = @ + 1]
  /\ UNCHANGED <<store, nextId, inv, overlap, ex, app>>

(* The pause before the next attempt.                                      *)
GenPause ==
  /\ gen.pc = "pause"
  /\ gen' = [gen EXCEPT !.pc = "loop", !.attempt = @ + 1,
                        !.log = Append(@, "pause"),
                        !.paused = @ + RetryPauseMs]
  /\ UNCHANGED <<store, nextId, inv, overlap, ex, app>>

(* A loop that ends by returning the last error as a failure.              *)
GenExhausted_Fails ==
  /\ gen.pc = "loop"
  /\ ~(gen.attempt <= gen.maxRetries)
  /\ gen' = [gen EXCEPT !.pc = "done", !.origin = "exhausted",
                        !.result = AIGenerationResponse(FALSE, NoGenerated,
                                                        gen.lastError)]
  /\ UNCHANGED <<store, nextId, inv, overlap, ex, app>>

(* The loop is over: the mock lesson is returned.                          *)
GenExhausted ==
  /\ gen.pc = "loop"
  /\ ~(gen.attempt <= gen.maxRetries)
  /\ LET result == generateMockContent(gen.transcript, gen.videoTitle)
     IN  gen' = IF IsThrow(result)
                THEN [gen EXCEPT !.pc = "threw", !.thrown = result]
                ELSE [gen EXCEPT !.pc = "done", !.result = result,
                                 !.origin = "exhausted"]
  /\ UNCHANGED <<store, nextId, inv, overlap, ex, app>>

(* The caller has the result or the exception.                             *)
GenDone ==
  /\ gen.pc \in {"done", "threw"}
  /\ gen.caller = None
  /\ gen' = IdleGen
  /\ UNCHANGED <<store, nextId, inv, overlap, ex, app>>

NextGen ==
  \/ \E transcript \in Transcripts, videoTitle \in VideoTitles,
        maxRetries \in 0..MaxAttempts, hasGlobalPrompt \in BOOLEAN :
       GenInvoke(transcript, videoTitle, maxRetries, hasGlobalPrompt)
  \/ GenAttempt
  \/ GenPause
  \/ GenExhausted
  \/ GenDone


----------------------------------------------------------------------------
(* Progress events (LessonCreationProgress)                                *)

LessonCreationProgress(step, message, progress, error) ==
  [step |-> step, message |-> message, progress |-> progress, error |-> error]

(* updateProgress that records an event only when a callback is there.    *)
updateProgress_OnlyWithCallback(progressHistory, delivered, hasCallback, progressUpdate) ==
  [ progressHistory |-> IF hasCallback
                        THEN Append(progressHistory, progressUpdate)
                        ELSE progressHistory,
    delivered       |-> IF hasCallback THEN Append(delivered, progressUpdate)
                        ELSE delivered ]

(* updateProgress: builds the record, pushes it on the history and hands   *)
(* it to the callback when there is one.  delivered is the sequence of     *)
(* records the callback has received.  The callbacks the callers pass      *)
(* (an array push and a console.log) return normally.                      *)
updateProgress(progressHistory, delivered, hasCallback, progressUpdate) ==
  [ progressHistory |-> Append(progressHistory, progressUpdate),
    delivered       |-> IF hasCallback THEN Append(delivered, progressUpdate)
                        ELSE delivered ]

(* The events of createLessonFromUrl, one per call site of updateProgress. *)
EvValidating ==
  LessonCreationProgress("validating", "Validating YouTube URL...", 10, None)
EvInvalidUrl ==
  LessonCreationProgress("error", "Invalid YouTube URL provided", 0,
                         "Please provide a valid YouTube video URL")
EvAlreadyExists ==
  LessonCreationProgress("error", "Lesson already exists for this video", 0,
                         "A lesson has already been created for this video")
EvExtracting ==
  LessonCreationProgress("extracting", "Extracting video transcript...", 30, None)
EvExtractFailed(transcriptResult) ==
  LessonCreationProgress("error", "Failed to extract transcript", 30,
        IF transcriptResult.error # None THEN transcriptResult.error
        ELSE "Could not extract transcript from video")
(* The 50% event labelled with the step that follows it.                   *)
EvExtracted_NextStep ==
  LessonCreationProgress("generating", "Transcript extracted successfully", 50, None)

EvExtracted ==
  LessonCreationProgress("extracting", "Transcript extracted successfully", 50, None)
EvGenerating ==
  LessonCreationProgress("generating", "Generating lesson content with AI...", 60, None)
EvGenerateFailed(aiResult) ==
  LessonCreationProgress("error", "Failed to generate lesson content", 60,
        IF aiResult.error # None THEN aiResult.error
        ELSE "AI content generation failed")
(* The 80% event reporting the percentage of the event before it.          *)
EvGenerated_Stale ==
  LessonCreationProgress("generating", "Lesson content generated successfully", 60, None)

EvGenerated ==
  LessonCreationProgress("generating", "Lesson content generated successfully", 80, None)
EvSaving ==
  LessonCreationProgress("saving", "Saving lesson to database...", 90, None)
(* The save failure reported at 0 like the input errors.                   *)
EvSaveFailed_AtZero ==
  LessonCreationProgress("error", "Failed to save lesson to database", 0,
                         "Database operation failed")

EvSaveFailed ==
  LessonCreationProgress("error", "Failed to save lesson to database", 90,
                         "Database operation failed")
EvCompleted ==
  LessonCreationProgress("completed", "Lesson created successfully!", 100, None)
(* The unexpected error reported at the percentage of the first step.      *)
EvUnexpected_AtTen(error) ==
  LessonCreationProgress("error", "Unexpected error during lesson creation", 10,
                         error.throw)

EvUnexpected(error) ==
  LessonCreationProgress("error", "Unexpected error during lesson creation", 0,
                         error.throw)

(* LessonCreationResult                                                    *)
LessonCreationResult(success, lesson, error, progress) ==
  [success |-> success, lesson |-> lesson, error |-> error, progress |-> progress]
NoResult == LessonCreationResult(FALSE, NoLesson, None, <<>>)

----------------------------------------------------------------------------
(* State                                                                   *)
(*   store    the Lesson rows of the database                              *)
(*   nextId   the id the database gives to the next row it creates         *)
(*   inv[i]   the invocation in slot i: its position, its arguments, its   *)
(*            local variables, the calls it has made and, once it has      *)
(*            returned, its result                                         *)
(*   overlap  whether callers start an invocation while another runs       *)
(*   ex       a call of extractTranscriptWithRetry (transcript client)      *)
(*   gen      a call of generateContentWithRetry (generation client)        *)
(*   app      a call of one of the exported pure functions                  *)
(*                                                                         *)
(* Three fields of inv[i] are history variables, not variables of the      *)
(* source: heldAtStart (the store held a lesson for the video of the URL   *)
(* when the invocation began), thrownBy (the call that threw, if any) and  *)
(* silentHistory (the history the invocation builds without a callback).   *)

NoUrl == Url(FALSE, <<>>, "", <<>>)

NoCalls == [findFirst |-> 0, extractTranscriptWithRetry |-> 0,
            generateContentWithRetry |-> 0, create |-> 0]

IdleInv ==
  [ pc               |-> "idle",
    videoUrl         |-> NoUrl,
    hasCallback      |-> FALSE,
    progressHistory  |-> <<>>,
    delivered        |-> <<>>,
    silentHistory    |-> <<>>,
    videoInfo        |-> parseYouTubeUrl(NoUrl),
    normalizedUrl    |-> NoUrl,
    existingLesson   |-> NoLesson,
    transcriptResult |-> TranscriptResponse(FALSE, NoText, None),
    aiResult         |-> AIGenerationResponse(FALSE, NoGenerated, None),
    savedLesson      |-> NoLesson,
    error            |-> Throw(None),
    thrownBy         |-> None,
    callLog          |-> <<>>,
    storeAtStart     |-> {},
    calls            |-> NoCalls,
    heldAtStart      |-> FALSE,
    result           |-> NoResult ]

Init ==
  /\ store = {}
  /\ nextId = 1
  /\ inv = [i \in Invs |-> IdleInv]
  /\ overlap = FALSE
  /\ ex = IdleEx
  /\ gen = IdleGen
  /\ app = IdleApp

(* r after one call of updateProgress; silentHistory is the history the    *)
(* same call builds when the invocation was given no callback.             *)
Emit(r, progressUpdate) ==
  LET u == updateProgress(r.progressHistory, r.delivered, r.hasCallback,
                          progressUpdate)
      s == updateProgress(r.silentHistory, <<>>, FALSE, progressUpdate)
  IN  [r EXCEPT !.progressHistory = u.progressHistory,
                !.delivered       = u.delivered,
                !.silentHistory   = s.progressHistory]

(* A failure return that leaves the error field out.                       *)
ReturnFailure_NoError(r, error) ==
  [r EXCEPT !.pc = "done",
            !.result = LessonCreationResult(FALSE, NoLesson, None,
                                            r.progressHistory)]

(* return { success: false, error, progress: progressHistory }             *)
ReturnFailure(r, error) ==
  [r EXCEPT !.pc = "done",
            !.result = LessonCreationResult(FALSE, NoLesson, error,
                                            r.progressHistory)]

(* return { success: true, lesson: savedLesson, progress: progressHistory }*)
ReturnSuccess(r) ==
  [r EXCEPT !.pc = "done",
            !.result = LessonCreationResult(TRUE, r.savedLesson, None,
                                            r.progressHistory)]

(* A rejected await outside any try block: the rejection leaves the        *)
(* function and no statement of it runs afterwards.                        *)
Raise_Uncaught(r, error, callee) ==
  [r EXCEPT !.pc = "escaped", !.error = error, !.thrownBy = callee]

(* A rejected await inside the try block: control goes to the catch.       *)
Raise(r, error, callee) ==
  [r EXCEPT !.pc = "catch", !.error = error, !.thrownBy = callee]

(* The invocation calls a collaborator: counted per callee, and logged in  *)
(* the order of the calls.                                                 *)
Called(r, callee) ==
  [r EXCEPT !.calls[callee] = @ + 1, !.callLog = Append(@, callee)]

(* A lookup whose where clause names the row id, which no video id equals. *)
findFirst_WrongColumn(videoId) ==
  LET found == { l \in store : l.videoId = videoId /\ l.id = 0 }
  IN  IF found = {} THEN NoLesson
      ELSE CHOOSE l \in found : \A m \in found : l.id <= m.id

(* prisma.lesson.findFirst({ where: { videoId } })                         *)
findFirst(videoId) ==
  LET found == { l \in store : l.videoId = videoId }
  IN  IF found = {} THEN NoLesson
      ELSE CHOOSE l \in found : \A m \in found : l.id <= m.id

----------------------------------------------------------------------------
(* createLessonFromUrl(videoUrl, progressCallback)                         *)

(* A caller that does not wait for the previous invocation to return.     *)
Invoke_Overlapping(i, videoUrl, hasCallback) ==
  /\ inv[i].pc = "idle"
  /\ inv' = [inv EXCEPT ![i] =
       [IdleInv EXCEPT !.pc = "validating",
                       !.videoUrl = videoUrl,
                       !.hasCallback = hasCallback,
                       !.storeAtStart = store,
                       !.heldAtStart =
                          /\ extractVideoId(videoUrl) # NoId
                          /\ \E l \in store : l.videoId = extractVideoId(videoUrl)]]
  /\ UNCHANGED <<store, nextId, overlap, ex, gen, app>>

(* A caller invokes the function.                                          *)
Invoke(i, videoUrl, hasCallback) ==
  /\ inv[i].pc = "idle"
  /\ overlap \/ \A j \in Invs : inv[j].pc = "idle"
  /\ inv' = [inv EXCEPT ![i] =
       [IdleInv EXCEPT !.pc = "validating",
                       !.videoUrl = videoUrl,
                       !.hasCallback = hasCallback,
                       !.storeAtStart = store,
                       !.heldAtStart =
                          /\ extractVideoId(videoUrl) # NoId
                          /\ \E l \in store : l.videoId = extractVideoId(videoUrl)]]
  /\ UNCHANGED <<store, nextId, overlap, ex, gen, app>>

(* Step 1: updateProgress("validating", ..., 10)                           *)
Validating(i) ==
  /\ inv[i].pc = "validating"
  /\ inv' = [inv EXCEPT ![i] = [Emit(@, EvValidating) EXCEPT !.pc = "parse"]]
  /\ UNCHANGED <<store, nextId, overlap, ex, gen, app>>

(* parseYouTubeUrl, the invalid-URL return, normalizeYouTubeUrl            *)
Parse(i) ==
  LET r == inv[i]
      videoInfo == parseYouTubeUrl(r.videoUrl)
      normalizedUrl == normalizeYouTubeUrl(r.videoUrl)
  IN  /\ r.pc = "parse"
      /\ inv' = [inv EXCEPT ![i] =
           IF ~videoInfo.isValid
           THEN ReturnFailure(Emit([r EXCEPT !.videoInfo = videoInfo], EvInvalidUrl),
                              "Invalid YouTube URL provided")
           ELSE IF IsThrow(normalizedUrl)
           THEN Raise([r EXCEPT !.videoInfo = videoInfo], normalizedUrl,
                      "normalizeYouTubeUrl")
           ELSE [r EXCEPT !.videoInfo = videoInfo,
                          !.normalizedUrl = normalizedUrl,
                          !.pc = "find"]]
      /\ UNCHANGED <<store, nextId, overlap, ex, gen, app>>

(* await prisma.lesson.findFirst, the already-exists return, and           *)
(* Step 2: updateProgress("extracting", ..., 30)                           *)
FindExisting(i) ==
  LET r == Called(inv[i], "findFirst")
      existingLesson == findFirst(r.videoInfo.videoId)
  IN  /\ inv[i].pc = "find"
      /\ \/ \E e \in StoreErrors :
              inv' = [inv EXCEPT ![i] = Raise(r, e, "findFirst")]
         \/ inv' = [inv EXCEPT ![i] =
              IF existingLesson # NoLesson
              THEN ReturnFailure(
                     Emit([r EXCEPT !.existingLesson = existingLesson],
                          EvAlreadyExists),
                     "Lesson already exists for this video")
              ELSE [Emit(r, EvExtracting) EXCEPT !.pc = "extract"]]
      /\ UNCHANGED <<store, nextId, overlap, ex, gen, app>>

(* A check that lets every extraction result through.                      *)
ExtractionFailed_Never(transcriptResult) == FALSE

(* The check without its second operand.                                   *)
ExtractionFailed_SuccessOnly(transcriptResult) == ~transcriptResult.success

(* !transcriptResult.success || !transcriptResult.transcript               *)
ExtractionFailed(transcriptResult) ==
  ~transcriptResult.success \/ transcriptResult.transcript = NoText

(* await extractTranscriptWithRetry(normalizedUrl, 3, 5000), the           *)
(* extraction-failure return, and updateProgress("extracting", ..., 50)    *)
Extract(i) ==
  LET r == Called(inv[i], "extractTranscriptWithRetry")
  IN  /\ inv[i].pc = "extract"
      /\ \/ \E e \in TranscriptErrors :
              inv' = [inv EXCEPT ![i] = Raise(r, e, "extractTranscriptWithRetry")]
         \/ \E transcriptResult \in TranscriptResponses :
              LET q == [r EXCEPT !.transcriptResult = transcriptResult]
              IN  inv' = [inv EXCEPT ![i] =
                    IF ExtractionFailed(transcriptResult)
                    THEN ReturnFailure(
                           Emit(q, EvExtractFailed(transcriptResult)),
                           IF transcriptResult.error # None
                           THEN transcriptResult.error
                           ELSE "Failed to extract transcript")
                    ELSE [Emit(q, EvExtracted) EXCEPT !.pc = "generating"]]
      /\ UNCHANGED <<store, nextId, overlap, ex, gen, app>>

(* Step 3: updateProgress("generating", ..., 60)                           *)
Generating(i) ==
  /\ inv[i].pc = "generating"
  /\ inv' = [inv EXCEPT ![i] = [Emit(@, EvGenerating) EXCEPT !.pc = "generate"]]
  /\ UNCHANGED <<store, nextId, overlap, ex, gen, app>>

(* The check without its second operand.                                   *)
GenerationFailed_SuccessOnly(aiResult) == ~aiResult.success

(* !aiResult.success || !aiResult.lesson                                   *)
GenerationFailed(aiResult) ==
  ~aiResult.success \/ aiResult.lesson = NoGenerated

(* What follows the await of generateContentWithRetry: the                 *)
(* generation-failure return, or updateProgress("generating", ..., 80)     *)
onGenerated(r, aiResult) ==
  LET q == [r EXCEPT !.aiResult = aiResult]
  IN  IF GenerationFailed(aiResult)
      THEN ReturnFailure(
             Emit(q, EvGenerateFailed(aiResult)),
             IF aiResult.error # None
             THEN aiResult.error
             ELSE "Failed to generate lesson content")
      ELSE [Emit(q, EvGenerated) EXCEPT !.pc = "saving"]

(* await generateContentWithRetry(transcript, title, 3), the               *)
(* generation-failure return, and updateProgress("generating", ..., 80)    *)
Generate(i) ==
  LET r == Called(inv[i], "generateContentWithRetry")
  IN  /\ inv[i].pc = "generate"
      /\ \/ \E e \in GenerationErrors :
              inv' = [inv EXCEPT ![i] = Raise(r, e, "generateContentWithRetry")]
         \/ \E aiResult \in AIGenerationResponses :
              inv' = [inv EXCEPT ![i] = onGenerated(r, aiResult)]
      /\ UNCHANGED <<store, nextId, overlap, ex, gen, app>>

(* The third argument of the call of generateContentWithRetry.             *)
GenerationRetries == 3

(* The same await with the generation client in place of its result type:  *)
(* the call of generateContentWithRetry(transcriptResult.transcript,       *)
(* `Lesson from ${videoId}`, 3) ...                                        *)
GenerateCall(i) ==
  /\ inv[i].pc = "generate"
  /\ gen.pc = "idle"
  /\ \E hasGlobalPrompt \in BOOLEAN :
       gen' = [IdleGen EXCEPT !.pc = "loop",
                              !.transcript = inv[i].transcriptResult.transcript,
                              !.videoTitle = "Lesson from videoId",
                              !.maxRetries = GenerationRetries,
                              !.hasGlobalPrompt = hasGlobalPrompt,
                              !.attempt = 1,
                              !.caller = i]
  /\ inv' = [inv EXCEPT ![i] =
       [Called(@, "generateContentWithRetry") EXCEPT !.pc = "generated"]]
  /\ UNCHANGED <<store, nextId, overlap, ex, app>>

(* ... and its return or its exception, with what follows the await.       *)
GenerateReturn(i) ==
  /\ inv[i].pc = "generated"
  /\ gen.caller = i
  /\ gen.pc \in {"done", "threw"}
  /\ inv' = [inv EXCEPT ![i] =
       IF gen.pc = "threw"
       THEN Raise(@, gen.thrown, "generateContentWithRetry")
       ELSE onGenerated(@, gen.result)]
  /\ gen' = IdleGen
  /\ UNCHANGED <<store, nextId, overlap, ex, app>>

(* Step 4: updateProgress("saving", ..., 90)                               *)
Saving(i) ==
  /\ inv[i].pc = "saving"
  /\ inv' = [inv EXCEPT ![i] = [Emit(@, EvSaving) EXCEPT !.pc = "save"]]
  /\ UNCHANGED <<store, nextId, overlap, ex, gen, app>>

(* A row whose sections all carry the order 1.                             *)
LessonRow_Unordered(id, generatedLesson, videoUrl, videoId) ==
  [ id       |-> id,
    title    |-> generatedLesson.title,
    videoUrl |-> videoUrl,
    videoId  |-> videoId,
    sections |-> [k \in 1..Len(generatedLesson.sections) |->
                    [section |-> generatedLesson.sections[k], order |-> 1]] ]

(* The row prisma.lesson.create writes: sections in generated order,       *)
(* numbered from 1.                                                        *)
LessonRow(id, generatedLesson, videoUrl, videoId) ==
  [ id       |-> id,
    title    |-> generatedLesson.title,
    videoUrl |-> videoUrl,
    videoId  |-> videoId,
    sections |-> [k \in 1..Len(generatedLesson.sections) |->
                    [section |-> generatedLesson.sections[k], order |-> k]] ]

(* A save that looks the video id up once more and gives up when a lesson  *)
(* for it has appeared since the duplicate check.                          *)
Save_Recheck(i) ==
  LET r == Called(inv[i], "create")
      lesson == LessonRow(nextId, r.aiResult.lesson, r.normalizedUrl,
                          r.videoInfo.videoId)
  IN  /\ inv[i].pc = "save"
      /\ IF findFirst(r.videoInfo.videoId) # NoLesson
         THEN /\ inv' = [inv EXCEPT ![i] =
                   ReturnFailure(Emit(r, EvAlreadyExists),
                                 "Lesson already exists for this video")]
              /\ UNCHANGED <<store, nextId>>
         ELSE /\ store' = store \cup {lesson}
              /\ nextId' = nextId + 1
              /\ inv' = [inv EXCEPT ![i] =
                   ReturnSuccess(Emit([r EXCEPT !.savedLesson = lesson], EvCompleted))]
      /\ UNCHANGED <<overlap, ex, gen, app>>

(* await saveLessonToDatabase(aiResult.lesson, normalizedUrl, videoId):    *)
(* one prisma.lesson.create inside a try whose catch returns null; then    *)
(* the save-failure return, or Step 5: updateProgress("completed", 100)    *)
Save(i) ==
  LET r == Called(inv[i], "create")
      lesson == LessonRow(nextId, r.aiResult.lesson, r.normalizedUrl,
                          r.videoInfo.videoId)
  IN  /\ inv[i].pc = "save"
      /\ \/ \E e \in StoreErrors :
              /\ inv' = [inv EXCEPT ![i] =
                   ReturnFailure(
                     Emit([r EXCEPT !.savedLesson = NoLesson,
                                    !.thrownBy = "create"], EvSaveFailed),
                     "Failed to save lesson to database")]
              /\ UNCHANGED <<store, nextId>>
         \/ /\ store' = store \cup {lesson}
            /\ nextId' = nextId + 1
            /\ inv' = [inv EXCEPT ![i] =
                 ReturnSuccess(Emit([r EXCEPT !.savedLesson = lesson], EvCompleted))]
      /\ UNCHANGED <<overlap, ex, gen, app>>

(* A catch block that rethrows: the promise of the invocation rejects.     *)
Catch_Rethrows(i) ==
  /\ inv[i].pc = "catch"
  /\ inv' = [inv EXCEPT ![i] = [@ EXCEPT !.pc = "escaped"]]
  /\ UNCHANGED <<store, nextId, overlap, ex, gen, app>>

(* catch (error): updateProgress("error", ..., 0, error.message) and the   *)
(* failure return carrying error.message                                   *)
Catch(i) ==
  /\ inv[i].pc = "catch"
  /\ inv' = [inv EXCEPT ![i] =
       ReturnFailure(Emit(@, EvUnexpected(@.error)), @.error.throw)]
  /\ UNCHANGED <<store, nextId, overlap, ex, gen, app>>

(* The caller has the result; the slot is free for another invocation.     *)
Return(i) ==
  /\ inv[i].pc = "done"
  /\ inv' = [inv EXCEPT ![i] = IdleInv]
  /\ UNCHANGED <<store, nextId, overlap, ex, gen, app>>

Next ==
  \E i \in Invs :
     \/ \E videoUrl \in UrlInputs, hasCallback \in BOOLEAN :
           Invoke(i, videoUrl, hasCallback)
     \/ Validating(i)
     \/ Parse(i)
     \/ FindExisting(i)
     \/ Extract(i)
     \/ Generating(i)
     \/ Generate(i)
     \/ Saving(i)
     \/ Save(i)
     \/ Catch(i)
     \/ Return(i)

Spec == Init /\ [][Next]_vars

(* The statements of a running invocation.                                 *)
Run(i) ==
  \/ Validating(i)
  \/ Parse(i)
  \/ FindExisting(i)
  \/ Extract(i)
  \/ Generating(i)
  \/ Generate(i)
  \/ Saving(i)
  \/ Save(i)
  \/ Catch(i)

(* Every external call returns or throws, and the event loop resumes the   *)
(* invocation after each await.                                            *)
SpecFair == Spec /\ \A i \in Invs : WF_vars(Run(i))

(* The workflow with the generation client in it: createLessonFromUrl as  *)
(* in Spec, but generateContentWithRetry runs as the client does, and the  *)
(* test route calls the client on its own while no invocation runs.        *)
(* A caller invokes createLessonFromUrl while no route handler is using    *)
(* the generation client.                                                  *)
InvokeWorkflow(i, videoUrl, hasCallback) ==
  /\ gen.pc = "idle"
  /\ Invoke(i, videoUrl, hasCallback)

(* The test route calls generateContentWithRetry while no invocation runs. *)
InvokeGeneration(transcript, videoTitle, maxRetries, hasGlobalPrompt) ==
  /\ \A i \in Invs : inv[i].pc = "idle"
  /\ GenInvoke(transcript, videoTitle, maxRetries, hasGlobalPrompt)

NextWorkflow ==
  \/ \E i \in Invs :
       \/ \E videoUrl \in UrlInputs, hasCallback \in BOOLEAN :
             InvokeWorkflow(i, videoUrl, hasCallback)
       \/ Validating(i)
       \/ Parse(i)
       \/ FindExisting(i)
       \/ Extract(i)
       \/ Generating(i)
       \/ GenerateCall(i)
       \/ GenerateReturn(i)
       \/ Saving(i)
       \/ Save(i)
       \/ Catch(i)
       \/ Return(i)
  \/ \E transcript \in Transcripts, videoTitle \in VideoTitles,
        maxRetries \in 0..MaxAttempts, hasGlobalPrompt \in BOOLEAN :
       InvokeGeneration(transcript, videoTitle, maxRetries, hasGlobalPrompt)
  \/ GenAttempt
  \/ GenPause
  \/ GenExhausted
  \/ GenDone

SpecWorkflow == Init /\ [][NextWorkflow]_vars

(* Concurrent callers: the route handlers run on one event loop, where a   *)
(* second request is served while the first one waits at an await.  The    *)
(* callers submit the same video, in two of its forms.                     *)
InitConc ==
  /\ store = {}
  /\ nextId = 1
  /\ inv = [i \in Invs |-> IdleInv]
  /\ overlap = TRUE
  /\ ex = IdleEx
  /\ gen = IdleGen
  /\ app = IdleApp

ConcUrls ==
  { Url(FALSE, <<"www", "youtube", "com">>, "/watch?v=", Vid1),
    Url(FALSE, <<"youtu", "be">>,           "/",         Vid1) }

NextConc ==
  \E i \in Invs :
     \/ \E videoUrl \in ConcUrls : Invoke(i, videoUrl, TRUE)
     \/ Validating(i)
     \/ Parse(i)
     \/ FindExisting(i)
     \/ Extract(i)
     \/ Generating(i)
     \/ Generate(i)
     \/ Saving(i)
     \/ Save(i)
     \/ Catch(i)
     \/ Return(i)

SpecConc == InitConc /\ [][NextConc]_vars

(* The lessons validateGeneratedContent is called with: one or two         *)
(* sections, the first of which has 0, 1 or 3 learning objectives, a quiz  *)
(* of 4, 5 or 6 questions, and a first question with 3, 4 or 5 options and *)
(* a correct answer that is an index, another number, or no number.        *)
(*                                                                         *)
CorrectAnswers == { Num(-1), Num(0), Num(3), Frac(3), Num(4), NotANumber }

LessonInputs ==
  { GeneratedLesson("Lesson",
      << [GoodSection EXCEPT
            !.learningObjectives = objectives,
            !.questions = [k \in 1..questions |->
               IF k = 1 THEN QuizQuestion("question", options, correctAnswer,
                                          "explanation")
               ELSE GoodQuestion]] >>
      \o rest) :
      objectives \in {0, 1, 3}, questions \in {4, 5, 6}, options \in {3, 4, 5},
      correctAnswer \in CorrectAnswers, rest \in {<<>>, <<GoodSection>>} }

(* A caller holds a lesson and calls validateGeneratedContent(lesson).     *)
InitValidate ==
  /\ store = {}
  /\ nextId = 1
  /\ inv = [i \in Invs |-> IdleInv]
  /\ overlap = FALSE
  /\ ex = IdleEx
  /\ gen = IdleGen
  /\ \E lesson \in LessonInputs :
       app = Application("validateGeneratedContent", lesson)

Validate ==
  /\ app.fn = "validateGeneratedContent"
  /\ ~app.applied
  /\ app' = [app EXCEPT !.applied = TRUE,
                        !.value = validateGeneratedContent(app.arg)]
  /\ UNCHANGED <<store, nextId, inv, overlap, ex, gen>>

SpecValidate == InitValidate /\ [][Validate]_vars

(* The transcripts determineSectionCount is called with: word counts at   *)
(* and around its thresholds, with and without whitespace at the ends.     *)
WordCounts ==
  { 0, 1, 400, 498, 499, 500, 501, 1000, 1498, 1499, 1500, 2000, 2998, 2999,
    3000, 4000 }

InitSections ==
  /\ store = {}
  /\ nextId = 1
  /\ inv = [i \in Invs |-> IdleInv]
  /\ overlap = FALSE
  /\ ex = IdleEx
  /\ gen = IdleGen
  /\ \E words \in WordCounts, lead \in BOOLEAN, trail \in BOOLEAN :
       app = Application("determineSectionCount",
                         Padded(Text(6 * words, words), lead, trail))

Sections ==
  /\ app.fn = "determineSectionCount"
  /\ ~app.applied
  /\ app' = [app EXCEPT !.applied = TRUE,
                        !.value = determineSectionCount(app.arg)]
  /\ UNCHANGED <<store, nextId, inv, overlap, ex, gen>>

SpecSections == InitSections /\ [][Sections]_vars

(* The URLs normalizeYouTubeUrl is called with: hosts, paths and ids that  *)
(* the patterns accept and that they reject, with and without surrounding  *)
(* whitespace and text after the id.                                       *)
UrlForms ==
  { Url(pad, host, path, tail) :
      pad \in BOOLEAN,
      host \in { <<"www", "youtube", "com">>, <<"youtube", "com">>,
                 <<"m", "youtube", "com">>, <<"music", "youtube", "com">>,
                 <<"youtu", "be">>, <<"vimeo", "com">> },
      path \in { "/watch?v=", "/", "/embed/" },
      tail \in { Vid1, Vid2, Vid1 \o <<"?","t","=","1">>, Vid1 \o <<"X">>,
                 SubSeq(Vid1, 1, 10) } }

InitNormalize ==
  /\ store = {}
  /\ nextId = 1
  /\ inv = [i \in Invs |-> IdleInv]
  /\ overlap = FALSE
  /\ ex = IdleEx
  /\ gen = IdleGen
  /\ \E url \in UrlForms : app = Application("normalizeYouTubeUrl", url)

Normalize ==
  /\ app.fn = "normalizeYouTubeUrl"
  /\ ~app.applied
  /\ app' = [app EXCEPT !.applied = TRUE, !.value = normalizeYouTubeUrl(app.arg)]
  /\ UNCHANGED <<store, nextId, inv, overlap, ex, gen>>

(* The caller passes a normalized URL to the function once more.           *)
Renormalize ==
  /\ Applied("normalizeYouTubeUrl")
  /\ ~IsThrow(app.value)
  /\ app.value # app.arg
  /\ app' = Application("normalizeYouTubeUrl", app.value)
  /\ UNCHANGED <<store, nextId, inv, overlap, ex, gen>>

NextNormalize ==
  \/ Normalize
  \/ Renormalize

SpecNormalize == InitNormalize /\ [][NextNormalize]_vars

(* The generation client on its own.                                       *)
SpecGen == Init /\ [][NextGen]_vars

(* The transcript client on its own.                                       *)
SpecExtract == Init /\ [][NextExtract]_vars

(* The same where a running call is not held up for ever: its awaited      *)
(* requests are answered or rejected and its timers fire.                  *)
SpecExtractFair == SpecExtract /\ WF_vars(ExStep)

----------------------------------------------------------------------------
(* Properties of createLessonFromUrl                                       *)

Last(h) == h[Len(h)]
Front(h) == SubSeq(h, 1, Len(h) - 1)
IsPrefix(s, t) == Len(s) <= Len(t) /\ SubSeq(t, 1, Len(s)) = s
Steps(h) == [k \in 1..Len(h) |-> h[k].step]
Progresses(h) == [k \in 1..Len(h) |-> h[k].progress]
Returned(i) == inv[i].pc = "done"

HappySteps == << "validating", "extracting", "extracting", "generating",
                 "generating", "saving", "completed" >>
HappyProgress == << 10, 30, 50, 60, 80, 90, 100 >>

(* C1: the steps of the events of an invocation are a prefix of            *)
(* validating, extracting, extracting, generating, generating, saving,     *)
(* completed, or such a prefix that stops before completed followed by     *)
(* one error; so nothing follows an error or a completed event.            *)
C1_StepOrder ==
  \A i \in Invs :
    LET s == Steps(inv[i].progressHistory)
    IN  \/ IsPrefix(s, HappySteps)
        \/ /\ Len(s) >= 1
           /\ Last(s) = "error"
           /\ IsPrefix(Front(s), HappySteps)
           /\ Len(Front(s)) < Len(HappySteps)

(* An error that follows the saving step.                                  *)
C1_Witness ==
  \E i \in Invs :
    Steps(inv[i].progressHistory) = SubSeq(HappySteps, 1, 6) \o <<"error">>

(* C2: an invocation that returns success has emitted exactly the progress *)
(* values 10, 30, 50, 60, 80, 90, 100 and its last event is completed.     *)
C2_SuccessProgress ==
  \A i \in Invs :
    (Returned(i) /\ inv[i].result.success) =>
       /\ Progresses(inv[i].result.progress) = HappyProgress
       /\ Last(inv[i].result.progress).step = "completed"

C2_Witness ==
  \E i \in Invs : Returned(i) /\ inv[i].result.success /\ inv[i].hasCallback

(* C3 as stated: when the store held a lesson for the video of the URL at  *)
(* the start of the invocation, the invocation returns the failure         *)
(* "Lesson already exists for this video", its last event is an error at   *)
(* 0 and it called neither the transcript client, nor the generation       *)
(* client, nor the create of the store.                                    *)
C3_AsStated ==
  \A i \in Invs :
    (Returned(i) /\ inv[i].heldAtStart) =>
       /\ ~inv[i].result.success
       /\ inv[i].result.error = "Lesson already exists for this video"
       /\ Last(inv[i].progressHistory).step = "error"
       /\ Last(inv[i].progressHistory).progress = 0
       /\ inv[i].calls.extractTranscriptWithRetry = 0
       /\ inv[i].calls.generateContentWithRetry = 0
       /\ inv[i].calls.create = 0

(* C3 amended: in that case the invocation returns a failure, its last     *)
(* event is an error at 0 and it made none of the three calls; the error   *)
(* is "Lesson already exists for this video" when the lookup returns, and  *)
(* the message of the lookup's exception when the lookup throws.           *)
C3_DuplicateRejected ==
  \A i \in Invs :
    (Returned(i) /\ inv[i].heldAtStart) =>
       /\ ~inv[i].result.success
       /\ Last(inv[i].progressHistory).step = "error"
       /\ Last(inv[i].progressHistory).progress = 0
       /\ inv[i].calls.extractTranscriptWithRetry = 0
       /\ inv[i].calls.generateContentWithRetry = 0
       /\ inv[i].calls.create = 0
       /\ inv[i].thrownBy \in {None, "findFirst"}
       /\ inv[i].thrownBy = None =>
            /\ inv[i].result.error = "Lesson already exists for this video"
            /\ inv[i].progressHistory = <<EvValidating, EvAlreadyExists>>
       /\ inv[i].thrownBy = "findFirst" =>
            /\ inv[i].result.error = inv[i].error.throw
            /\ inv[i].progressHistory = <<EvValidating, EvUnexpected(inv[i].error)>>

(* A duplicate rejected for a URL that is not the stored, canonical one.   *)
C3_Witness ==
  \E i \in Invs :
    /\ Returned(i) /\ inv[i].heldAtStart
    /\ inv[i].existingLesson # NoLesson
    /\ inv[i].existingLesson.videoUrl # inv[i].videoUrl
    /\ inv[i].result.error = "Lesson already exists for this video"

(* C4: when the URL holds no video id, the invocation emits validating at  *)
(* 10, then error at 0, returns a failure and calls no collaborator.       *)
C4_InvalidUrl ==
  \A i \in Invs :
    (Returned(i) /\ extractVideoId(inv[i].videoUrl) = NoId) =>
       /\ inv[i].progressHistory = <<EvValidating, EvInvalidUrl>>
       /\ ~inv[i].result.success
       /\ inv[i].result.error = "Invalid YouTube URL provided"
       /\ inv[i].calls = NoCalls

(* An invalid URL on a YouTube host (its id is one character short).       *)
C4_Witness ==
  \E i \in Invs :
    /\ Returned(i)
    /\ extractVideoId(inv[i].videoUrl) = NoId
    /\ inv[i].videoUrl.host = <<"www", "youtube", "com">>

(* C5: a result is either a success with a lesson that is in the store,    *)
(* no error and a history ending with completed at 100, or a failure with  *)
(* a non-empty error, no lesson and a history ending with an error event.  *)
C5_ResultShape ==
  \A i \in Invs :
    Returned(i) =>
      LET res == inv[i].result
      IN  /\ Len(res.progress) >= 1
          /\ \/ /\ res.success
                /\ res.lesson # NoLesson
                /\ res.lesson \in store
                /\ res.error = None
                /\ Last(res.progress).step = "completed"
                /\ Last(res.progress).progress = 100
             \/ /\ ~res.success
                /\ res.error \notin {None, ""}
                /\ res.lesson = NoLesson
                /\ Last(res.progress).step = "error"

(* A failure whose error is the message of a caught exception.             *)
C5_Witness ==
  \E i \in Invs :
    /\ Returned(i) /\ ~inv[i].result.success
    /\ inv[i].thrownBy = "findFirst"
    /\ inv[i].result.error = "Can't reach database server"

(* C6: no exception leaves the invocation; when a collaborator has thrown, *)
(* the invocation returns a failure whose history ends with an error       *)
(* event.                                                                  *)
C6_NoEscape ==
  \A i \in Invs :
    /\ inv[i].pc # "escaped"
    /\ (inv[i].thrownBy # None /\ inv[i].pc \notin {"catch", "escaped"}) =>
          /\ Returned(i)
          /\ ~inv[i].result.success
          /\ inv[i].result.progress = inv[i].progressHistory
          /\ Last(inv[i].result.progress).step = "error"

(* The generation client threw after four events had been emitted.         *)
C6_Witness ==
  \E i \in Invs :
    /\ Returned(i)
    /\ inv[i].thrownBy = "generateContentWithRetry"
    /\ Len(inv[i].progressHistory) = 5

(* C7: the events handed to the callback are the history, which is the     *)
(* progress of the result; a step of an invocation leaves the history as   *)
(* it is or appends one event to it; the history is the one the same       *)
(* invocation builds without a callback.                                   *)
C7_CallbackIsHistory ==
  [][ \A i \in Invs :
        LET r == inv[i]
            q == inv'[i]
        IN  /\ q.hasCallback => q.delivered = q.progressHistory
            /\ ~q.hasCallback => q.delivered = <<>>
            /\ q.pc = "done" => q.result.progress = q.progressHistory
            /\ q.silentHistory = q.progressHistory
            /\ \/ q.progressHistory = r.progressHistory
               \/ /\ Len(q.progressHistory) = Len(r.progressHistory) + 1
                  /\ Front(q.progressHistory) = r.progressHistory
               \/ r.pc = "done" /\ q.pc = "idle" ]_vars

(* A successful invocation with a callback, which received seven events.   *)
C7_Witness ==
  \E i \in Invs :
    /\ Returned(i) /\ inv[i].hasCallback
    /\ Len(inv[i].delivered) = 7

(* The extraction call of invocation i has returned a failure, or a        *)
(* success without text.                                                   *)
ExtractionReturnedFailure(i) ==
  /\ inv[i].calls.extractTranscriptWithRetry = 1
  /\ inv[i].thrownBy # "extractTranscriptWithRetry"
  /\ inv[i].pc # "extract"
  /\ \/ ~inv[i].transcriptResult.success
     \/ inv[i].transcriptResult.transcript = NoText

(* C8 as stated: after such a return the invocation ends with an error     *)
(* event at 30 whose error is the extractor's, returns a failure with      *)
(* that error, and calls neither the generation client nor create.         *)
C8_AsStated ==
  \A i \in Invs :
    ExtractionReturnedFailure(i) =>
       /\ Returned(i)
       /\ ~inv[i].result.success
       /\ Last(inv[i].progressHistory).step = "error"
       /\ Last(inv[i].progressHistory).progress = 30
       /\ Last(inv[i].progressHistory).error = inv[i].transcriptResult.error
       /\ inv[i].result.error = inv[i].transcriptResult.error
       /\ inv[i].calls.generateContentWithRetry = 0
       /\ inv[i].calls.create = 0

(* C8 amended: the event and the result carry the extractor's error when   *)
(* it gave one; otherwise the event carries "Could not extract transcript  *)
(* from video" and the result "Failed to extract transcript".              *)
C8_ExtractionFailure ==
  \A i \in Invs :
    ExtractionReturnedFailure(i) =>
       LET e == inv[i].transcriptResult.error
       IN  /\ Returned(i)
           /\ ~inv[i].result.success
           /\ Steps(inv[i].progressHistory) = <<"validating", "extracting", "error">>
           /\ Last(inv[i].progressHistory).progress = 30
           /\ Last(inv[i].progressHistory).error =
                 IF e # None THEN e ELSE "Could not extract transcript from video"
           /\ inv[i].result.error =
                 IF e # None THEN e ELSE "Failed to extract transcript"
           /\ inv[i].calls.generateContentWithRetry = 0
           /\ inv[i].calls.create = 0

(* The extractor reported success but gave no text.                        *)
C8_Witness ==
  \E i \in Invs :
    /\ ExtractionReturnedFailure(i)
    /\ inv[i].transcriptResult.success
    /\ inv[i].result.error = "Failed to extract transcript"

(* The generation call of invocation i has returned a failure, or a        *)
(* success without lesson.                                                 *)
GenerationReturnedFailure(i) ==
  /\ inv[i].calls.generateContentWithRetry = 1
  /\ inv[i].thrownBy # "generateContentWithRetry"
  /\ inv[i].pc # "generate"
  /\ \/ ~inv[i].aiResult.success
     \/ inv[i].aiResult.lesson = NoGenerated

GenerationThrew(i) ==
  /\ inv[i].thrownBy = "generateContentWithRetry"
  /\ inv[i].pc # "catch"

(* C9 as stated: when the generation call fails, by its result or by       *)
(* throwing, the invocation ends with an error event at 60, returns a      *)
(* failure and does not call create.                                       *)
C9_AsStated ==
  \A i \in Invs :
    (GenerationReturnedFailure(i) \/ GenerationThrew(i)) =>
       /\ Returned(i)
       /\ ~inv[i].result.success
       /\ Last(inv[i].progressHistory).step = "error"
       /\ Last(inv[i].progressHistory).progress = 60
       /\ inv[i].calls.create = 0

(* C9 amended: the error event is at 60 when the call returns a failure    *)
(* and at 0 when the call throws; in both cases the invocation returns a   *)
(* failure and does not call create.                                       *)
C9_GenerationFailure ==
  \A i \in Invs :
    (GenerationReturnedFailure(i) \/ GenerationThrew(i)) =>
       /\ Returned(i)
       /\ ~inv[i].result.success
       /\ Last(inv[i].progressHistory).step = "error"
       /\ Last(inv[i].progressHistory).progress =
             IF GenerationThrew(i) THEN 0 ELSE 60
       /\ Progresses(Front(inv[i].progressHistory)) = <<10, 30, 50, 60>>
       /\ inv[i].calls.create = 0

(* The generation call threw and the invocation has returned.              *)
C9_Witness ==
  \E i \in Invs :
    /\ GenerationThrew(i) /\ Returned(i)
    /\ inv[i].result.error = "transcript.substring is not a function"

(* C10: when the create of the store fails, the invocation ends with the   *)
(* error event at 90, returns a failure, and has called create once.       *)
C10_SaveFailure ==
  \A i \in Invs :
    inv[i].thrownBy = "create" =>
       /\ Returned(i)
       /\ ~inv[i].result.success
       /\ inv[i].result.lesson = NoLesson
       /\ Last(inv[i].progressHistory).step = "error"
       /\ Last(inv[i].progressHistory).progress = 90
       /\ Progresses(inv[i].progressHistory) = <<10, 30, 50, 60, 80, 90, 90>>
       /\ inv[i].calls.create = 1

(* A failed create for a three-section lesson.                             *)
C10_Witness ==
  \E i \in Invs :
    /\ inv[i].thrownBy = "create" /\ Returned(i)
    /\ inv[i].aiResult.lesson.totalSections = 3

----------------------------------------------------------------------------
(* C11: within one invocation the collaborators are called at most once    *)
(* each and in the order store lookup, extractTranscriptWithRetry,         *)
(* generateContentWithRetry, store create; the extraction is called only   *)
(* after a lookup that returned no lesson, the generation only after an    *)
(* extraction that returned success with a transcript, the create only     *)
(* after a generation that returned success with a lesson.                 *)
Stages ==
  <<"findFirst", "extractTranscriptWithRetry", "generateContentWithRetry", "create">>

C11_StagesOnceInOrder ==
  \A i \in Invs :
    LET r == inv[i]
    IN  /\ IsPrefix(r.callLog, Stages)
        /\ \A k \in 1..4 : r.calls[Stages[k]] = (IF k <= Len(r.callLog) THEN 1 ELSE 0)
        /\ Len(r.callLog) >= 2 =>
             r.existingLesson = NoLesson /\ r.thrownBy # "findFirst"
        /\ Len(r.callLog) >= 3 =>
             /\ r.transcriptResult.success
             /\ r.transcriptResult.transcript # NoText
             /\ r.thrownBy # "extractTranscriptWithRetry"
        /\ Len(r.callLog) = 4 =>
             /\ r.aiResult.success
             /\ r.aiResult.lesson # NoGenerated
             /\ r.thrownBy # "generateContentWithRetry"

(* An invocation has called all four collaborators, each once, and         *)
(* returned.                                                               *)
C11_Witness ==
  \E i \in Invs :
    /\ Returned(i)
    /\ inv[i].callLog = Stages
    /\ \A k \in 1..4 : inv[i].calls[Stages[k]] = 1

----------------------------------------------------------------------------
(* C12: the duplicate check and the create are separate steps with awaits  *)
(* between them and the create looks at nothing.  A save that the store    *)
(* does not reject adds a row for its video whatever rows the store holds, *)
(* so two overlapping invocations for one video that both passed the check *)
(* both persist.                                                           *)
C12_SaveDoesNotRecheck ==
  [][\A i \in Invs :
       (inv[i].pc = "save" /\ inv'[i].pc = "done" /\ inv'[i].thrownBy # "create")
       => /\ inv'[i].result.success
          /\ inv'[i].result.lesson \in store' \ store
          /\ inv'[i].result.lesson.videoId = inv[i].videoInfo.videoId
          /\ store' = store \cup {inv'[i].result.lesson}]_vars

(* Two invocations, both started against a store without a lesson for the  *)
(* video, have both returned success, and the store holds two lessons for  *)
(* that one video id.                                                      *)
C12_Witness ==
  /\ \A i \in Invs :
       /\ Returned(i)
       /\ ~inv[i].heldAtStart
       /\ inv[i].result.success
       /\ inv[i].videoInfo.videoId = Vid1
       /\ inv[i].existingLesson = NoLesson
  /\ \E l1, l2 \in store :
       l1 # l2 /\ l1.videoId = Vid1 /\ l2.videoId = Vid1

----------------------------------------------------------------------------
(* Transcript client: helpers of the claims                                *)

(* The calls of extractTranscript in a log, without the delays.            *)
Attempts(log) == SelectSeq(log, LAMBDA op : op # "delay")
Delays(log) == SelectSeq(log, LAMBDA op : op = "delay")
ExReturned == ex.pc = "done"
AllFailed(log) == \A k \in 1..Len(log) : log[k] \in {"failure", "throw", "delay"}

(* C13: for maxRetries >= 1, extractTranscriptWithRetry calls              *)
(* extractTranscript at most maxRetries times, with one delay of           *)
(* RetryDelayMs between consecutive calls; when every call failed, by a    *)
(* failure result or by an exception, it returns success = false after     *)
(* exactly maxRetries calls and maxRetries - 1 delays, none after the last *)
(* call; a call that yields transcript text is the last one and its text   *)
(* is returned.                                                            *)
C13_BoundedRetry ==
  (ex.pc # "idle" /\ ex.maxRetries >= 1) =>
    /\ Len(Attempts(ex.log)) <= ex.maxRetries
    /\ \A k \in 1..Len(ex.log) : (ex.log[k] = "delay") <=> (k % 2 = 0)
    /\ ex.delayed = RetryDelayMs * Len(Delays(ex.log))
    /\ (ExReturned /\ AllFailed(ex.log)) =>
         /\ ~ex.result.success
         /\ Len(Attempts(ex.log)) = ex.maxRetries
         /\ Len(Delays(ex.log)) = ex.maxRetries - 1
         /\ Last(ex.log) # "delay"
    /\ \A k \in 1..Len(ex.log) :
         ex.log[k] = "text" =>
           /\ k = Len(ex.log)
           /\ ExReturned
           /\ ex.result.success
           /\ ex.result.transcript # NoText

(* Both ends of the claim: a call with maxRetries = 3 whose three attempts *)
(* failed, one of them by an exception, has returned after two delays.     *)
C13_Witness ==
  /\ ExReturned
  /\ ex.variant = "mcp"
  /\ ex.maxRetries = 3
  /\ ~ex.result.success
  /\ Attempts(ex.log) = <<"failure", "throw", "failure">>
  /\ ex.delayed = 2 * RetryDelayMs

----------------------------------------------------------------------------
(* C14: once the capability has returned a job id in a call of             *)
(* extractTranscriptWithRetry, that call sends no further transcript       *)
(* request, and what it returns is the outcome of polling the job: the     *)
(* completed text, the failed status, or the timeout.                      *)
C14_AsStated ==
  ex.jobGiven =>
    /\ ex.afterJob = 0
    /\ ExReturned =>
         \/ ex.result.success /\ ex.result.transcript # NoText
         \/ ~ex.result.success

----------------------------------------------------------------------------
(* C15: pollTranscriptJob calls checkTranscriptStatus again and again,     *)
(* with one sleep of PollIntervalMs between two calls and only while the   *)
(* budget is not used up, until a status completed with text, which is     *)
(* returned as success with that text, or a status failed, which is        *)
(* returned as it is, ends it with no further status call; when the budget *)
(* is used up the timeout failure is returned with no further status call. *)
Final(status) ==
  \/ status.status = "completed" /\ status.transcript # NoText
  \/ status.status = "failed"

TimedOut ==
  TranscriptResult(FALSE, NoText, "Transcript extraction timed out", None, None)

Polled(e) ==
  /\ e.slept = PollIntervalMs * e.sleeps
  /\ e.pc = "poll" => e.checks = e.sleeps
  /\ e.pc = "pollSleep" => e.checks = e.sleeps + 1
  /\ (e.pc \in {"poll", "pollSleep"} /\ e.checks >= 1) => ~Final(e.lastStatus)
  /\ (e.pc = "done" /\ e.checks >= 1) =>
       \/ /\ e.lastStatus.status = "completed"
          /\ e.lastStatus.transcript # NoText
          /\ e.result.success
          /\ e.result.transcript = e.lastStatus.transcript
          /\ e.checks = e.sleeps + 1
       \/ /\ e.lastStatus.status = "failed"
          /\ ~e.result.success
          /\ e.result = e.lastStatus
          /\ e.checks = e.sleeps + 1
       \/ /\ ~Final(e.lastStatus)
          /\ e.result = TimedOut
          /\ e.elapsed >= MaxPollTimeMs
          /\ e.checks = e.sleeps

C15_Polling ==
  [][/\ Polled(ex')
     /\ ex'.checks > ex.checks => ex.elapsed < MaxPollTimeMs
     /\ (ex.pc = "poll" /\ ex.elapsed >= MaxPollTimeMs) =>
          (ex'.pc = "done" /\ ex'.result = TimedOut /\ ex'.checks = ex.checks)]_vars

(* A polling that found the job active, slept, and then found it failed.   *)
C15_Witness ==
  /\ ExReturned
  /\ ex.checks = 2
  /\ ex.sleeps = 1
  /\ ex.lastStatus.status = "failed"
  /\ ex.result = ex.lastStatus

----------------------------------------------------------------------------
(* C16: a call of extractTranscriptWithRetry that polls a job returns; and *)
(* when every status check found the job queued or active, it returns the  *)
(* timeout failure, after the budget of MaxPollTimeMs was used up.         *)
C16_PollingTerminates ==
  (ex.pc \in {"poll", "pollSleep"})
    ~> (/\ ExReturned
        /\ ex.waiting => (/\ ~ex.result.success
                          /\ ex.result.error = "Transcript extraction timed out"
                          /\ ex.elapsed >= MaxPollTimeMs))

(* A job that was queued or active at every status check, sixty checks     *)
(* five seconds apart, and the call has returned.                          *)
C16_Witness ==
  /\ ExReturned
  /\ ex.waiting
  /\ ex.checks * PollIntervalMs = MaxPollTimeMs
  /\ ex.result = TimedOut

----------------------------------------------------------------------------
(* C17: every invocation, once started, returns, and when it has returned  *)
(* its history holds exactly one terminal event (completed or error),      *)
(* which is its last event.                                                *)
Terminal == {"completed", "error"}

TerminalEvents(h) == SelectSeq(h, LAMBDA p : p.step \in Terminal)

C17_Terminates ==
  \A i \in Invs :
    (inv[i].pc \notin {"idle", "done"})
      ~> (/\ Returned(i)
          /\ Len(TerminalEvents(inv[i].progressHistory)) = 1
          /\ Last(inv[i].progressHistory).step \in Terminal)

(* An invocation whose extraction threw has returned, with the error event *)
(* as its one terminal event.                                              *)
C17_Witness ==
  \E i \in Invs :
    /\ Returned(i)
    /\ Last(inv[i].progressHistory).step = "error"
    /\ inv[i].thrownBy = "extractTranscriptWithRetry"
    /\ Len(TerminalEvents(inv[i].progressHistory)) = 1

----------------------------------------------------------------------------
(* C18: a call of extractTranscript whose transcript request ended in an   *)
(* error has made exactly one further request, to an alternate transcript  *)
(* source, before it ended in a failure.                                   *)
C18_AsStated ==
  (ex.primary = "throw" /\ ex.pc # "idle" /\ Last(ex.log) \in {"failure", "throw"})
    => ex.extra = 1

----------------------------------------------------------------------------
(* C19: generateContentWithRetry never returns success = false: whatever   *)
(* it returns is a success with a lesson that passes                       *)
(* validateGeneratedContent; when no attempt gave a valid lesson of the    *)
(* capability, because the capability threw, answered something that does  *)
(* not parse, or a lesson that fails the validation, it returns the mock   *)
(* lesson; and it throws only when the transcript is not a string, never   *)
(* because a response failed to parse or to validate.                      *)
GenReturned == gen.pc = "done"

C19_FallbackGuarantee ==
  /\ GenReturned =>
       /\ gen.result.success
       /\ gen.result.lesson # NoGenerated
       /\ validateGeneratedContent(gen.result.lesson)
       /\ (\A k \in 1..Len(gen.log) : gen.log[k] # "valid" \/ k \in gen.mocks) =>
            gen.result = generateMockContent(gen.transcript, gen.videoTitle)
  /\ gen.pc = "threw" => gen.transcript = NotAString

(* Three attempts on a long transcript, at each of which the capability    *)
(* failed, and the mock lesson, under its default title, is returned.      *)
C19_Witness ==
  /\ GenReturned
  /\ gen.maxRetries = 3
  /\ gen.transcript = Text(1500, 250)
  /\ gen.videoTitle = None
  /\ gen.log = <<"failure", "pause", "failure", "pause", "failure">>
  /\ gen.lastError = "Failed to generate content with AI"
  /\ gen.result.success
  /\ gen.result.lesson.title = "Introduction to Programming Concepts"

----------------------------------------------------------------------------
(* C20: generateContentWithRetry makes at most maxRetries attempts, with   *)
(* one pause of RetryPauseMs between consecutive attempts; an attempt      *)
(* whose lesson passes the validation is the last one; and the mock lesson *)
(* is returned only after maxRetries attempts, all of which failed.        *)
GenAttempts(log) == SelectSeq(log, LAMBDA op : op # "pause")
GenPauses(log) == SelectSeq(log, LAMBDA op : op = "pause")

C20_AsStated ==
  gen.pc # "idle" =>
    /\ Len(GenAttempts(gen.log)) <= gen.maxRetries
    /\ \A k \in 1..Len(gen.log) : (gen.log[k] = "pause") <=> (k % 2 = 0)
    /\ gen.paused = RetryPauseMs * Len(GenPauses(gen.log))
    /\ \A k \in 1..Len(gen.log) :
         gen.log[k] = "valid" => (k = Len(gen.log) /\ GenReturned)
    /\ (/\ GenReturned
        /\ gen.result = generateMockContent(gen.transcript, gen.videoTitle)) =>
         /\ Len(GenAttempts(gen.log)) = gen.maxRetries
         /\ \A k \in 1..Len(gen.log) : gen.log[k] \in {"failure", "invalid", "pause"}

----------------------------------------------------------------------------
(* C21: validateGeneratedContent returns false for every lesson that has a *)
(* section without a learning objective, a section whose quiz has not      *)
(* exactly 5 questions, a question that has not exactly 4 options, or a    *)
(* question whose correct answer is not an index in 0..3.                  *)
Defective(lesson) ==
  \E k \in 1..Len(lesson.sections) :
    LET section == lesson.sections[k]
    IN  \/ section.learningObjectives <= 0
        \/ Len(section.questions) # 5
        \/ \E n \in 1..Len(section.questions) :
             LET q == section.questions[n]
             IN  \/ q.options # 4
                 \/ ~q.correctAnswer.number
                 \/ q.correctAnswer.frac
                 \/ q.correctAnswer.value \notin 0..3

C21_AsStated ==
  (Applied("validateGeneratedContent") /\ Defective(app.arg)) => app.value = FALSE

----------------------------------------------------------------------------
(* C22: a lesson that generateContentWithRetry returns has as many         *)
(* sections as determineSectionCount plans for the transcript; a lesson    *)
(* with another number of sections counts as a failed attempt.             *)
C22_AsStated ==
  GenReturned =>
    Len(gen.result.lesson.sections) = determineSectionCount(gen.transcript)

----------------------------------------------------------------------------
(* C23: determineSectionCount depends on the number w of words of the      *)
(* transcript only: 2 for w < 500, 3 for 500 <= w < 1500, 4 for            *)
(* 1500 <= w < 3000 and 5 for w >= 3000.                                   *)
C23_AsStated ==
  Applied("determineSectionCount") =>
    LET w == app.arg.words
    IN  app.value = (IF w < 500 THEN 2
                     ELSE IF w < 1500 THEN 3
                     ELSE IF w < 3000 THEN 4
                     ELSE 5)

----------------------------------------------------------------------------
(* C24: for every URL that normalizeYouTubeUrl accepts, the result is the  *)
(* watch URL on www.youtube.com of the id the URL carries, normalizing     *)
(* that result gives it again, and every accepted URL that carries the     *)
(* same id, in whatever form, has the same result.                         *)
Canonical(videoId) == Url(FALSE, <<"www", "youtube", "com">>, "/watch?v=", videoId)

C24_NormalizeIdempotent ==
  (Applied("normalizeYouTubeUrl") /\ extractVideoId(app.arg) # NoId) =>
    /\ ~IsThrow(app.value)
    /\ app.value = Canonical(SubSeq(app.arg.tail, 1, IdLen))
    /\ normalizeYouTubeUrl(app.value) = app.value
    /\ \A url \in UrlForms :
         (extractVideoId(url) = extractVideoId(app.arg)) =>
            normalizeYouTubeUrl(url) = app.value

(* A short link with surrounding whitespace and a query string has been    *)
(* normalized to the watch URL of its video.                               *)
C24_Witness ==
  /\ Applied("normalizeYouTubeUrl")
  /\ app.arg = Url(TRUE, <<"youtu", "be">>, "/", Vid1 \o <<"?","t","=","1">>)
  /\ app.value = Canonical(Vid1)

----------------------------------------------------------------------------
(* C25: every lesson in the store has a title, at least one section, and   *)
(* in every section at least one learning objective and exactly 5          *)
(* questions, each with exactly 4 options and a correct answer that is an  *)
(* index in 0..3.                                                          *)
WellFormedQuestion(q) ==
  /\ q.options = 4
  /\ q.correctAnswer.number
  /\ ~q.correctAnswer.frac
  /\ q.correctAnswer.value \in 0..3

WellFormedSection(section) ==
  /\ section.learningObjectives > 0
  /\ Len(section.questions) = 5
  /\ \A n \in 1..Len(section.questions) : WellFormedQuestion(section.questions[n])

C25_AsStated ==
  \A lesson \in store :
    /\ lesson.title # None
    /\ Len(lesson.sections) >= 1
    /\ \A k \in 1..Len(lesson.sections) :
         WellFormedSection(lesson.sections[k].section)

----------------------------------------------------------------------------
(* C26: whatever the transcript, the empty one and one of fewer than 100   *)
(* characters included, and whatever the capability answers, a call of     *)
(* generateContentWithRetry with maxRetries >= 1 that returns, returns     *)
(* success = true with a lesson; so no history of createLessonFromUrl      *)
(* holds the error event of the generation stage, the one at progress 60.  *)
C26_NoGenerationFailure ==
  /\ (GenReturned /\ gen.maxRetries >= 1) =>
       (gen.result.success /\ gen.result.lesson # NoGenerated)
  /\ \A i \in Invs :
       /\ \A k \in 1..Len(inv[i].progressHistory) :
            ~(inv[i].progressHistory[k].step = "error"
              /\ inv[i].progressHistory[k].progress = 60)
       /\ inv[i].pc \in {"saving", "save"} =>
            (inv[i].aiResult.success /\ inv[i].aiResult.lesson # NoGenerated)

(* An invocation whose transcript had fewer than 100 characters has        *)
(* returned success: the lesson it saved is the mock lesson.               *)
C26_Witness ==
  \E i \in Invs :
    /\ Returned(i)
    /\ inv[i].result.success
    /\ inv[i].transcriptResult.transcript = Text(50, 10)
    /\ inv[i].aiResult = generateMockContent(Text(50, 10), "Lesson from videoId")
    /\ inv[i].savedLesson \in store

----------------------------------------------------------------------------
(* C27: an invocation that has returned success = false has left the store *)
(* as it was when the invocation started; one that has returned success =  *)
(* true has added exactly one lesson, under the video id extracted from    *)
(* its URL and the normalized URL, whose sections are the generated ones   *)
(* in their order, numbered 1..n; and a running invocation has not written *)
(* yet.  (Invocations do not overlap here.)                                *)
C27_StoreFrame ==
  \A i \in Invs :
    LET r == inv[i]
    IN  /\ (r.pc \notin {"idle", "done"}) => store = r.storeAtStart
        /\ (Returned(i) /\ ~r.result.success) => store = r.storeAtStart
        /\ (Returned(i) /\ r.result.success) =>
             LET lesson == r.result.lesson
             IN  /\ lesson \notin r.storeAtStart
                 /\ store = r.storeAtStart \cup {lesson}
                 /\ lesson.videoId = extractVideoId(r.videoUrl)
                 /\ lesson.videoUrl = normalizeYouTubeUrl(r.videoUrl)
                 /\ Len(lesson.sections) = Len(r.aiResult.lesson.sections)
                 /\ \A k \in 1..Len(lesson.sections) :
                      /\ lesson.sections[k].order = k
                      /\ lesson.sections[k].section = r.aiResult.lesson.sections[k]

(* A second lesson has been added to a store that held one, by an          *)
(* invocation for a short link with a three-section lesson.                *)
C27_Witness ==
  \E i \in Invs :
    /\ Returned(i)
    /\ inv[i].result.success
    /\ Cardinality(inv[i].storeAtStart) = 1
    /\ Cardinality(store) = 2
    /\ inv[i].videoUrl.host = <<"youtu", "be">>
    /\ Len(inv[i].result.lesson.sections) = 3

----------------------------------------------------------------------------
(* C28: when each invocation starts after the previous one has returned,   *)
(* the store never holds two lessons with the same video id, whatever the  *)
(* URLs and the outcomes of extraction, generation and persistence.        *)
C28_OneLessonPerVideo ==
  \A l1, l2 \in store : l1.videoId = l2.videoId => l1 = l2

(* The store holds lessons of two videos, and an invocation for a video    *)
(* that had a lesson has been turned away without a write.                 *)
C28_Witness ==
  \E i \in Invs :
    /\ Returned(i)
    /\ ~inv[i].result.success
    /\ inv[i].existingLesson \in store
    /\ Cardinality(store) = 2
    /\ store = inv[i].storeAtStart

----------------------------------------------------------------------------
(* C29: a status check that throws, or that reports completed without any  *)
(* transcript content, does not end polling: pollTranscriptJob sleeps and  *)
(* goes round again, and a polling that returns does so on a check that    *)
(* found completed with text or failed, or with the timeout failure once   *)
(* the budget is used up; the failure of the check itself is never the     *)
(* result.                                                                 *)
Inconclusive(status) ==
  \/ status.error = "Failed to check transcript status"
  \/ status.status = "completed" /\ status.transcript = NoText

C29_InconclusiveCheckContinues ==
  [][/\ (ex'.checks > ex.checks /\ Inconclusive(ex'.lastStatus)) =>
          (ex'.pc = "pollSleep" /\ ex'.result = ex.result)
     /\ ex.pc = "pollSleep" =>
          (ex'.pc = "poll" /\ ex'.checks = ex.checks /\ ex'.result = ex.result)
     /\ (ex.pc = "poll" /\ ex'.pc = "done") =>
          \/ /\ ex'.checks = ex.checks + 1
             /\ ex'.lastStatus.status = "completed"
             /\ ex'.lastStatus.transcript # NoText
             /\ ex'.result = ex'.lastStatus
          \/ /\ ex'.checks = ex.checks + 1
             /\ ex'.lastStatus.status = "failed"
             /\ ex'.result = ex'.lastStatus
          \/ /\ ex'.checks = ex.checks
             /\ ex.elapsed >= MaxPollTimeMs
             /\ ex'.result = TimedOut
     /\ ex'.result.error # "Failed to check transcript status"]_vars

(* A polling whose first check threw and whose second found the job        *)
(* completed without content has returned the transcript its third check   *)
(* found.                                                                  *)
C29_Witness ==
  /\ ExReturned
  /\ ex.checks = 3
  /\ ex.stray = {"threw", "empty"}
  /\ ex.result.success
  /\ ex.result.transcript = Text(1500, 250)

----------------------------------------------------------------------------
(* C30: every error event of createLessonFromUrl has progress 0, 30, 60 or *)
(* 90; and when a call rejected inside the try block, the last event is    *)
(* the error event of the catch block with progress 0, whatever the        *)
(* progress of the event before it: 10 after the lookup, 30 after the      *)
(* extraction, 60 after the generation.                                    *)
ProgressBeforeThrow ==
  [findFirst |-> 10, extractTranscriptWithRetry |-> 30, generateContentWithRetry |-> 60]

C30_ErrorProgress ==
  \A i \in Invs :
    LET h == inv[i].progressHistory
    IN  /\ \A k \in 1..Len(h) :
             h[k].step = "error" => h[k].progress \in {0, 30, 60, 90}
        /\ (Returned(i) /\ inv[i].thrownBy \in DOMAIN ProgressBeforeThrow) =>
             /\ Len(h) >= 2
             /\ h[Len(h)] = EvUnexpected(inv[i].error)
             /\ h[Len(h)].progress = 0
             /\ h[Len(h) - 1].progress = ProgressBeforeThrow[inv[i].thrownBy]
             /\ \A k \in 1..(Len(h) - 1) : h[k].step # "error"

(* The generation threw after the history had reached 60: the progress     *)
(* values end with a drop from 60 to 0.                                    *)
C30_Witness ==
  \E i \in Invs :
    /\ Returned(i)
    /\ inv[i].thrownBy = "generateContentWithRetry"
    /\ Progresses(inv[i].progressHistory) = <<10, 30, 50, 60, 0>>

====
